---- MODULE Spec2Model ----
(***************************************************************************)
(* A model of the ed9t terminal text editor (src/main.lua, the C program   *)
(* that starts at line 50 of that file).  The editor state is the global   *)
(* EditorConfig E; the operations are the C functions, each translated to  *)
(* an operator from an editor state (a record with E's fields) to the      *)
(* editor state it leaves.  Columns and row numbers are 0-based as in the  *)
(* C code; a TLA+ sequence is 1-based, so chars[j] of the code is          *)
(* chars[j + 1] here.  A row's size is Len(chars), its rsize Len(render).  *)
(***************************************************************************)
EXTENDS Integers, Sequences, FiniteSets, TLC

(***************************************************************************)
(* Bytes and key codes                                                     *)
(***************************************************************************)
ED9T_TAB_STOP == 8
ED9T_QUIT_TIMES == 3

TAB == 9
LF == 10
CR == 13
ESC == 27
SPACE == 32

BACKSPACE == 127
ARROW_LEFT == 1000
ARROW_RIGHT == 1001
ARROW_UP == 1002
ARROW_DOWN == 1003
DEL_KEY == 1004
HOME_KEY == 1005
END_KEY == 1006
PAGE_UP == 1007
PAGE_DOWN == 1008

\* CTRL_KEY(k) is k & 0x1f: the low five bits of the byte
CTRL_KEY(k) == k % 32

CTRL_Q == CTRL_KEY(113)
CTRL_S == CTRL_KEY(115)
CTRL_H == CTRL_KEY(104)
CTRL_F == CTRL_KEY(102)
CTRL_L == CTRL_KEY(108)
\* a control byte with no case in editor_process_keypress
CTRL_A == CTRL_KEY(97)

(***************************************************************************)
(* Bounds of the model                                                     *)
(***************************************************************************)
\* rows a buffer may grow to by Enter
MaxRows == 2
\* bytes the rows of a buffer may grow to, all together, by typing
MaxBytes == 1
\* mutations counted in E.dirty before typing stops
MaxDirty == 2
\* bytes the prompt's input line may grow to
MaxBuf == 1

(***************************************************************************)
(* Row operations                                                          *)
(***************************************************************************)
RECURSIVE CxToRxLoop(_, _, _, _)
CxToRxLoop(chars, cx, j, rx) ==
  IF j >= cx THEN rx
  ELSE LET rx1 == IF chars[j + 1] = TAB
                  THEN rx + (ED9T_TAB_STOP - 1) - (rx % ED9T_TAB_STOP)
                  ELSE rx
       IN  CxToRxLoop(chars, cx, j + 1, rx1 + 1)

\* editor_row_cx_to_rx, were a tab one column wide
editor_row_cx_to_rx_flat(row, cx) == cx

editor_row_cx_to_rx(row, cx) == CxToRxLoop(row.chars, cx, 0, 0)

RECURSIVE RxToCxLoop(_, _, _, _)
RxToCxLoop(chars, rx, cx, cur_rx) ==
  IF cx >= Len(chars) THEN cx
  ELSE LET c1 == IF chars[cx + 1] = TAB
                 THEN cur_rx + (ED9T_TAB_STOP - 1) - (cur_rx % ED9T_TAB_STOP)
                 ELSE cur_rx
           c2 == c1 + 1
       IN  IF c2 > rx THEN cx ELSE RxToCxLoop(chars, rx, cx + 1, c2)

editor_row_rx_to_cx(row, rx) == RxToCxLoop(row.chars, rx, 0, 0)

\* the inner loop of editor_update_row, were it to add no space
PadNone(out) == out

\* the inner loop of editor_update_row: spaces until idx is a multiple of 8
RECURSIVE PadToTabStop(_)
PadToTabStop(out) ==
  IF Len(out) % ED9T_TAB_STOP # 0 THEN PadToTabStop(Append(out, SPACE)) ELSE out

RECURSIVE RenderLoop(_, _, _)
RenderLoop(chars, j, out) ==
  IF j >= Len(chars) THEN out
  ELSE IF chars[j + 1] = TAB
       THEN RenderLoop(chars, j + 1, PadToTabStop(Append(out, SPACE)))
       ELSE RenderLoop(chars, j + 1, Append(out, chars[j + 1]))

editor_update_row(row) == [row EXCEPT !.render = RenderLoop(row.chars, 0, <<>>)]

\* s with x put at 0-based position at, the later elements shifted right
InsertAt(s, at, x) == SubSeq(s, 1, at) \o <<x>> \o SubSeq(s, at + 1, Len(s))

\* s without its element at 0-based position at
RemoveAt(s, at) == SubSeq(s, 1, at) \o SubSeq(s, at + 2, Len(s))

\* editor_insert_row, were at brought into 0..numrows
editor_insert_row_clamped(e, at, s) ==
  LET at1 == IF at < 0 THEN 0 ELSE IF at > e.numrows THEN e.numrows ELSE at
  IN  [e EXCEPT
         !.row = InsertAt(e.row, at1, editor_update_row([chars |-> s, render |-> <<>>])),
         !.numrows = e.numrows + 1,
         !.dirty = e.dirty + 1]

editor_insert_row(e, at, s) ==
  IF at < 0 \/ at > e.numrows THEN e
  ELSE [e EXCEPT
          !.row = InsertAt(e.row, at, editor_update_row([chars |-> s, render |-> <<>>])),
          !.numrows = e.numrows + 1,
          !.dirty = e.dirty + 1]

\* the row is named by its index r in E.row
editor_row_insert_char(e, r, at0, c) ==
  LET row == e.row[r + 1]
      at == IF at0 < 0 \/ at0 > Len(row.chars) THEN Len(row.chars) ELSE at0
  IN  [e EXCEPT
         !.row[r + 1] = editor_update_row([row EXCEPT !.chars = InsertAt(row.chars, at, c)]),
         !.dirty = e.dirty + 1]

\* editor_row_del_char without its E.dirty++
editor_row_del_char_clean(e, r, at) ==
  LET row == e.row[r + 1]
  IN  IF at < 0 \/ at >= Len(row.chars) THEN e
      ELSE [e EXCEPT
              !.row[r + 1] = editor_update_row([row EXCEPT !.chars = RemoveAt(row.chars, at)])]

editor_row_del_char(e, r, at) ==
  LET row == e.row[r + 1]
  IN  IF at < 0 \/ at >= Len(row.chars) THEN e
      ELSE [e EXCEPT
              !.row[r + 1] = editor_update_row([row EXCEPT !.chars = RemoveAt(row.chars, at)]),
              !.dirty = e.dirty + 1]

\* editor_del_row, were at = numrows let through
editor_del_row_upto(e, at) ==
  IF at < 0 \/ at > e.numrows THEN e
  ELSE [e EXCEPT
          !.row = RemoveAt(e.row, at),
          !.numrows = e.numrows - 1,
          !.dirty = e.dirty + 1]

\* editor_del_row that removes no row
editor_del_row_none(e, at) == e

editor_del_row(e, at) ==
  IF at < 0 \/ at >= e.numrows THEN e
  ELSE [e EXCEPT
          !.row = RemoveAt(e.row, at),
          !.numrows = e.numrows - 1,
          !.dirty = e.dirty + 1]

\* editor_row_append_string without its call of editor_update_row
editor_row_append_string_stale(e, r, s) ==
  LET row == e.row[r + 1]
  IN  [e EXCEPT
         !.row[r + 1] = [row EXCEPT !.chars = row.chars \o s],
         !.dirty = e.dirty + 1]

editor_row_append_string(e, r, s) ==
  LET row == e.row[r + 1]
  IN  [e EXCEPT
         !.row[r + 1] = editor_update_row([row EXCEPT !.chars = row.chars \o s]),
         !.dirty = e.dirty + 1]

(***************************************************************************)
(* Editor operations                                                       *)
(***************************************************************************)
\* editor_insert_char without its E.cx++
editor_insert_char_stay(e, c) ==
  LET e1 == IF e.cy = e.numrows THEN editor_insert_row(e, e.numrows, <<>>) ELSE e
  IN  editor_row_insert_char(e1, e1.cy, e1.cx, c)

editor_insert_char(e, c) ==
  LET e1 == IF e.cy = e.numrows THEN editor_insert_row(e, e.numrows, <<>>) ELSE e
      e2 == editor_row_insert_char(e1, e1.cy, e1.cx, c)
  IN  [e2 EXCEPT !.cx = e2.cx + 1]

\* editor_insert_newline that does not cut row cy at cx
editor_insert_newline_keep(e) ==
  LET e1 == IF e.cx = 0
            THEN editor_insert_row(e, e.cy, <<>>)
            ELSE LET row == e.row[e.cy + 1]
                 IN  editor_insert_row(e, e.cy + 1,
                                       SubSeq(row.chars, e.cx + 1, Len(row.chars)))
  IN  [e1 EXCEPT !.cy = e1.cy + 1, !.cx = 0]

editor_insert_newline(e) ==
  LET e1 == IF e.cx = 0
            THEN editor_insert_row(e, e.cy, <<>>)
            ELSE LET row == e.row[e.cy + 1]
                     ea == editor_insert_row(e, e.cy + 1,
                                             SubSeq(row.chars, e.cx + 1, Len(row.chars)))
                     rw == ea.row[e.cy + 1]
                 IN  [ea EXCEPT !.row[e.cy + 1] =
                        editor_update_row([rw EXCEPT !.chars = SubSeq(rw.chars, 1, e.cx)])]
  IN  [e1 EXCEPT !.cy = e1.cy + 1, !.cx = 0]

\* editor_del_char that leaves cx at 0 when it joins two rows
editor_del_char_col0(e) ==
  IF e.cy = e.numrows THEN e
  ELSE IF e.cx = 0 /\ e.cy = 0 THEN e
  ELSE IF e.cx > 0
       THEN LET e1 == editor_row_del_char(e, e.cy, e.cx - 1)
            IN  [e1 EXCEPT !.cx = e1.cx - 1]
       ELSE LET row == e.row[e.cy + 1]
                e2 == editor_row_append_string(e, e.cy - 1, row.chars)
                e3 == editor_del_row(e2, e2.cy)
            IN  [e3 EXCEPT !.cy = e3.cy - 1]

editor_del_char(e) ==
  IF e.cy = e.numrows THEN e
  ELSE IF e.cx = 0 /\ e.cy = 0 THEN e
  ELSE IF e.cx > 0
       THEN LET e1 == editor_row_del_char(e, e.cy, e.cx - 1)
            IN  [e1 EXCEPT !.cx = e1.cx - 1]
       ELSE LET row == e.row[e.cy + 1]
                e1 == [e EXCEPT !.cx = Len(e.row[e.cy].chars)]
                e2 == editor_row_append_string(e1, e1.cy - 1, row.chars)
                e3 == editor_del_row(e2, e2.cy)
            IN  [e3 EXCEPT !.cy = e3.cy - 1]

(***************************************************************************)
(* File I/O                                                                *)
(***************************************************************************)
\* the bytes editor_save writes: every row followed by one '\n'
RECURSIVE RowsToStringLoop(_, _, _)
RowsToStringLoop(rows, j, out) ==
  IF j >= Len(rows) THEN out
  ELSE RowsToStringLoop(rows, j + 1, (out \o rows[j + 1].chars) \o <<LF>>)

editor_rows_to_string(e) == RowsToStringLoop(e.row, 0, <<>>)

\* getline: the bytes of f from 0-based offset p up to and including the next
\* '\n', or up to the end of the file
RECURSIVE GetLineEnd(_, _)
GetLineEnd(f, p) ==
  IF p >= Len(f) THEN p
  ELSE IF f[p + 1] = LF THEN p + 1 ELSE GetLineEnd(f, p + 1)

\* the inner while of editor_open, were it to take off the \n only
RECURSIVE StripLineFeed(_)
StripLineFeed(line) ==
  IF Len(line) > 0 /\ line[Len(line)] = LF
  THEN StripLineFeed(SubSeq(line, 1, Len(line) - 1))
  ELSE line

\* the inner while of editor_open: linelen-- while the last byte is \n or \r
RECURSIVE StripLineEnd(_)
StripLineEnd(line) ==
  IF Len(line) > 0 /\ (line[Len(line)] = LF \/ line[Len(line)] = CR)
  THEN StripLineEnd(SubSeq(line, 1, Len(line) - 1))
  ELSE line

\* the loop of editor_open, were each line inserted above the rows read before
RECURSIVE OpenLoopAtTop(_, _, _)
OpenLoopAtTop(e, f, p) ==
  IF p >= Len(f) THEN e
  ELSE LET q == GetLineEnd(f, p)
           line == SubSeq(f, p + 1, q)
       IN  OpenLoopAtTop(editor_insert_row(e, 0, StripLineEnd(line)), f, q)

RECURSIVE OpenLoop(_, _, _)
OpenLoop(e, f, p) ==
  IF p >= Len(f) THEN e
  ELSE LET q == GetLineEnd(f, p)
           line == SubSeq(f, p + 1, q)
       IN  OpenLoop(editor_insert_row(e, e.numrows, StripLineEnd(line)), f, q)

\* editor_open on a file that fopen could open, holding the bytes f
editor_open(e, name, f) ==
  LET e1 == OpenLoop([e EXCEPT !.filename = name], f, 0)
  IN  [e1 EXCEPT !.dirty = 0]

(***************************************************************************)
(* Status message                                                          *)
(***************************************************************************)
\* a message is its format (kind) and its argument
Msg(kind, arg) == [kind |-> kind, arg |-> arg]
NoMsg == Msg("", <<>>)

editor_set_status_message(e, m, t) == [e EXCEPT !.statusmsg = m, !.statusmsg_time = t]

(***************************************************************************)
(* Cursor movement and scrolling                                           *)
(***************************************************************************)
\* editor_move_cursor without the snap of cx to the row's length at its end
editor_move_cursor_unclamped(e, k) ==
  LET hasrow == e.cy < e.numrows
      size == IF hasrow THEN Len(e.row[e.cy + 1].chars) ELSE 0
  IN  CASE k = ARROW_UP ->
             IF e.cy # 0 THEN [e EXCEPT !.cy = e.cy - 1] ELSE e
        [] k = ARROW_DOWN ->
             IF e.cy < e.numrows THEN [e EXCEPT !.cy = e.cy + 1] ELSE e
        [] k = ARROW_LEFT ->
             IF e.cx # 0 THEN [e EXCEPT !.cx = e.cx - 1]
             ELSE IF e.cy > 0
                  THEN [e EXCEPT !.cy = e.cy - 1, !.cx = Len(e.row[e.cy].chars)]
                  ELSE e
        [] k = ARROW_RIGHT ->
             IF hasrow /\ e.cx < size THEN [e EXCEPT !.cx = e.cx + 1]
             ELSE IF hasrow /\ e.cx = size
                  THEN [e EXCEPT !.cy = e.cy + 1, !.cx = 0]
                  ELSE e
        [] OTHER -> e

editor_move_cursor(e, k) ==
  LET hasrow == e.cy < e.numrows
      size == IF hasrow THEN Len(e.row[e.cy + 1].chars) ELSE 0
      e1 == CASE k = ARROW_UP ->
                   IF e.cy # 0 THEN [e EXCEPT !.cy = e.cy - 1] ELSE e
              [] k = ARROW_DOWN ->
                   IF e.cy < e.numrows THEN [e EXCEPT !.cy = e.cy + 1] ELSE e
              [] k = ARROW_LEFT ->
                   IF e.cx # 0 THEN [e EXCEPT !.cx = e.cx - 1]
                   ELSE IF e.cy > 0
                        THEN [e EXCEPT !.cy = e.cy - 1, !.cx = Len(e.row[e.cy].chars)]
                        ELSE e
              [] k = ARROW_RIGHT ->
                   IF hasrow /\ e.cx < size THEN [e EXCEPT !.cx = e.cx + 1]
                   ELSE IF hasrow /\ e.cx = size
                        THEN [e EXCEPT !.cy = e.cy + 1, !.cx = 0]
                        ELSE e
              [] OTHER -> e
      rowlen == IF e1.cy >= e1.numrows THEN 0 ELSE Len(e1.row[e1.cy + 1].chars)
  IN  IF e1.cx > rowlen THEN [e1 EXCEPT !.cx = rowlen] ELSE e1

\* editor_scroll without its second test of cy: it never scrolls down
editor_scroll_up(e) ==
  LET rx == IF e.cy < e.numrows THEN editor_row_cx_to_rx(e.row[e.cy + 1], e.cx) ELSE 0
      ro1 == IF e.cy < e.rowoff THEN e.cy ELSE e.rowoff
      co1 == IF rx < e.coloff THEN rx ELSE e.coloff
      co2 == IF rx >= co1 + e.screencols THEN rx - e.screencols + 1 ELSE co1
  IN  [e EXCEPT !.rx = rx, !.rowoff = ro1, !.coloff = co2]

\* editor_scroll, were the column put in the middle of the window when it is
\* right of it
editor_scroll_centre(e) ==
  LET rx == IF e.cy < e.numrows THEN editor_row_cx_to_rx(e.row[e.cy + 1], e.cx) ELSE 0
      ro1 == IF e.cy < e.rowoff THEN e.cy ELSE e.rowoff
      ro2 == IF e.cy >= ro1 + e.screenrows THEN e.cy - e.screenrows + 1 ELSE ro1
      co1 == IF rx < e.coloff THEN rx ELSE e.coloff
      co2 == IF rx >= co1 + e.screencols THEN rx - (e.screencols \div 2) ELSE co1
  IN  [e EXCEPT !.rx = rx, !.rowoff = ro2, !.coloff = co2]

editor_scroll(e) ==
  LET rx == IF e.cy < e.numrows THEN editor_row_cx_to_rx(e.row[e.cy + 1], e.cx) ELSE 0
      ro1 == IF e.cy < e.rowoff THEN e.cy ELSE e.rowoff
      ro2 == IF e.cy >= ro1 + e.screenrows THEN e.cy - e.screenrows + 1 ELSE ro1
      co1 == IF rx < e.coloff THEN rx ELSE e.coloff
      co2 == IF rx >= co1 + e.screencols THEN rx - e.screencols + 1 ELSE co1
  IN  [e EXCEPT !.rx = rx, !.rowoff = ro2, !.coloff = co2]

\* while (times--) editor_move_cursor(k)
RECURSIVE MoveTimes(_, _, _)
MoveTimes(e, k, times) ==
  IF times = 0 THEN e ELSE MoveTimes(editor_move_cursor(e, k), k, times - 1)

\* the PAGE_UP / PAGE_DOWN case, were the cursor not first put on the edge of
\* the window
PageKeyFromCursor(e, c) ==
  MoveTimes(e, IF c = PAGE_UP THEN ARROW_UP ELSE ARROW_DOWN, e.screenrows)

\* the PAGE_UP / PAGE_DOWN case of editor_process_keypress
PageKey(e, c) ==
  LET e1 == IF c = PAGE_UP THEN [e EXCEPT !.cy = e.rowoff]
            ELSE LET y == e.rowoff + e.screenrows - 1
                 IN  [e EXCEPT !.cy = IF y > e.numrows THEN e.numrows ELSE y]
  IN  MoveTimes(e1, IF c = PAGE_UP THEN ARROW_UP ELSE ARROW_DOWN, e.screenrows)

\* the BACKSPACE / CTRL_H / DEL_KEY case of editor_process_keypress
DeleteKey(e, c) ==
  editor_del_char(IF c = DEL_KEY THEN editor_move_cursor(e, ARROW_RIGHT) ELSE e)

\* the END_KEY case of editor_process_keypress
EndKey(e) ==
  IF e.cy < e.numrows THEN [e EXCEPT !.cx = Len(e.row[e.cy + 1].chars)] ELSE e

(***************************************************************************)
(* State                                                                   *)
(***************************************************************************)
VARIABLES
  E,            \* the global EditorConfig
  quit_times,   \* static of editor_process_keypress
  last_match,   \* static of editor_find_callback
  direction,    \* static of editor_find_callback
  pc,           \* where the program is: "start", "refresh", "key",
                \* "prompt_refresh", "prompt_key", "exit", "abort"; "ops" when
                \* the buffer operations are applied on their own
  exit_code,    \* the status passed to exit(), -1 while running
  cb,           \* the callback of the open editor_prompt: "none", "save", "find"
  buf,          \* editor_prompt's input line (buflen is its length); <<>> when
                \* no prompt is open
  buf_freed,    \* whether the open prompt's buf has been passed to free()
  saved,        \* editor_find's saved_cx, saved_cy, saved_coloff, saved_rowoff;
                \* NoSaved when editor_find is not running
  disk,         \* the file: whether it exists, and its bytes
  now,          \* time(NULL)
  saved_rows,   \* history: E.row at the last successful open or save
  opened,       \* history: the bytes of the file editor_open read
  io_last,      \* history: what the system calls of editor_save did, when the
                \* last key handled was a save
  nq,           \* history: the Ctrl-Q keys editor_process_keypress read in a row
  trail,        \* history: the operations applied to a buffer, the last one
                \* first, each with the editor state it was applied to
  rd,           \* editor_read_key: seq, the bytes read into seq[]; ret, the key
                \* returned (-1 before the return); reads, history: what
                \* each read() of this call gave
  tty,          \* the terminal: mode, "orig" with the attributes of
                \* E.orig_termios and "raw" with those of enable_raw_mode;
                \* atexit, whether disable_raw_mode is registered; acquired,
                \* history: whether the raw attributes were ever set
  screen        \* history: the buffers editor_refresh_screen has written to
                \* the terminal since a key was last read, or since the start

hist == <<saved_rows, opened, io_last, nq, trail>>

vars == <<E, quit_times, last_match, direction, pc, exit_code, cb, buf, buf_freed,
          saved, disk, now, hist, rd, tty, screen>>

\* char *filename: NULL or a string
NULL == [null |-> TRUE, name |-> <<>>]
Str(s) == [null |-> FALSE, name |-> s]

NoFile == [exists |-> FALSE, bytes |-> <<>>]
File(f) == [exists |-> TRUE, bytes |-> f]

\* E after init_editor, in a window of sr + 2 rows and sc columns
init_editor(sr, sc) ==
  [cx |-> 0, cy |-> 0, rx |-> 0, rowoff |-> 0, coloff |-> 0,
   screenrows |-> sr, screencols |-> sc,
   numrows |-> 0, row |-> <<>>, dirty |-> 0, filename |-> NULL,
   statusmsg |-> NoMsg, statusmsg_time |-> 0]

NoSaved == [cx |-> 0, cy |-> 0, coloff |-> 0, rowoff |-> 0]

\* the name given on the command line
ArgName == <<102>>

\* the bytes typed into the buffer, and into the prompt
TypedChars == {97, TAB}
PromptChars == {97}
\* what a read of the prompt's line can give once it has been freed
RECURSIVE SeqsUpTo(_, _)
SeqsUpTo(S, n) ==
  IF n = 0 THEN {<<>>}
  ELSE LET T == SeqsUpTo(S, n - 1) IN T \cup {Append(t, x) : t \in T, x \in S}
FreedReads == SeqsUpTo(PromptChars, MaxBuf)

\* the windows: <<screenrows, screencols>>
ScreenSizes == {<<1, 3>>}
\* the files the editor is started on
StartFiles == {NoFile, File(<<97, LF, TAB>>)}

\* editor_read_key before its first read
NoRead == [seq |-> <<>>, ret |-> -1, reads |-> <<>>]

\* the terminal before enable_raw_mode, and after it
CookedTty == [mode |-> "orig", atexit |-> FALSE, acquired |-> FALSE]
RawTty == [mode |-> "raw", atexit |-> TRUE, acquired |-> TRUE]

\* tcsetattr(STDIN_FILENO, TCSAFLUSH, &E.orig_termios), on a terminal that
\* takes the attributes
disable_raw_mode(t) == [t EXCEPT !.mode = "orig"]

\* exit(): the function registered with atexit is called
AtExit(t) == IF t.atexit THEN disable_raw_mode(t) ELSE t

\* the editor states after init_editor
Started == {init_editor(sz[1], sz[2]) : sz \in ScreenSizes}

(***************************************************************************)
(* Drawing: what editor_refresh_screen appends to its buffer               *)
(***************************************************************************)
\* one line of editor_draw_rows, line y of the window
DrawRow(e, y) ==
  LET filerow == y + e.rowoff
  IN  IF filerow >= e.numrows
      THEN [kind |-> IF e.numrows = 0 /\ y = e.screenrows \div 3
                     THEN "welcome" ELSE "~",
            text |-> <<>>]
      ELSE LET rsize == Len(e.row[filerow + 1].render)
               left == rsize - e.coloff
               len == IF left < 0 THEN 0
                      ELSE IF left > e.screencols THEN e.screencols ELSE left
           IN  [kind |-> "row",
                text |-> SubSeq(e.row[filerow + 1].render, e.coloff + 1, e.coloff + len)]

editor_draw_rows(e) == [y \in 1..e.screenrows |-> DrawRow(e, y - 1)]

\* the arguments of the two snprintf of the status bar
editor_draw_status_bar(e) ==
  [filename |-> e.filename, numrows |-> e.numrows, modified |-> e.dirty # 0,
   line |-> e.cy + 1]

\* the message bar drawn at the time t, were the age of the message not looked at
editor_draw_message_bar_ageless(e, t) ==
  IF e.statusmsg # NoMsg /\ e.screencols > 0 THEN e.statusmsg ELSE NoMsg

\* the message bar drawn at the time t: the message, cut to the window's
\* width, or nothing
editor_draw_message_bar(e, t) ==
  IF e.statusmsg # NoMsg /\ e.screencols > 0 /\ t - e.statusmsg_time < 5
  THEN e.statusmsg ELSE NoMsg

\* the buffer ab at the write of editor_refresh_screen, E being e: the rows,
\* the two bars and the place of the cursor
Frame(e, t) ==
  [rows |-> editor_draw_rows(e),
   status |-> editor_draw_status_bar(e),
   message |-> editor_draw_message_bar(e, t),
   cursor |-> <<(e.cy - e.rowoff) + 1, (e.rx - e.coloff) + 1>>]

\* editor_refresh_screen at the time t, were the buffer filled before
\* editor_scroll
editor_refresh_screen_unscrolled(e, t) ==
  [e |-> editor_scroll(e), writes |-> <<Frame(e, t)>>]

\* editor_refresh_screen at the time t: the E it leaves and what it writes
editor_refresh_screen(e, t) ==
  LET e1 == editor_scroll(e)
  IN  [e |-> e1, writes |-> <<Frame(e1, t)>>]

\* the program at p, with an editor state of Es, a file of files, the trail
\* t and the terminal y
InitAll(files, Es, p, t, y) ==
  /\ E \in Es
  /\ quit_times = ED9T_QUIT_TIMES
  /\ last_match = -1
  /\ direction = 1
  /\ pc = p
  /\ exit_code = -1
  /\ cb = "none"
  /\ buf = <<>>
  /\ buf_freed = FALSE
  /\ saved = NoSaved
  /\ disk \in files
  /\ now = 0
  /\ saved_rows = <<>>
  /\ opened = <<>>
  /\ io_last = <<"none", 0>>
  /\ nq = 0
  /\ trail = t
  /\ rd = NoRead
  /\ tty = y
  /\ screen = IF p \in {"key", "prompt_key"} THEN <<Frame(E, 0)>> ELSE <<>>

\* the program at p in raw mode, with an editor state of Es and a file of files
InitWith(files, Es, p) == InitAll(files, Es, p, <<>>, RawTty)

Init == InitWith(StartFiles, Started, "start")

\* history: the trail is kept where it is begun, and then holds the last key
\* or operation alone
Kept(t) == IF trail = <<>> THEN <<>> ELSE <<t>>

\* the program at p with an editor state of Es and no file, its trail begun
InitKeeping(Es, p) == InitAll({NoFile}, Es, p, <<[op |-> "main"]>>, RawTty)

(***************************************************************************)
(* main: the start and the loop                                            *)
(***************************************************************************)
HelpMsg == Msg("HELP: Ctrl-S = save | Ctrl-Q = quit | Ctrl-F = find", <<>>)

\* main with argc < 2
StartNoArg ==
  /\ pc = "start"
  /\ E' = editor_set_status_message(E, HelpMsg, now)
  /\ pc' = "refresh"
  /\ UNCHANGED <<quit_times, last_match, direction, exit_code, cb, buf, buf_freed,
                 saved, disk, now, hist, rd, tty, screen>>

\* main with a file name: editor_open, which dies when fopen fails
StartOpen ==
  /\ pc = "start"
  /\ IF disk.exists
     THEN LET e1 == editor_open(E, Str(ArgName), disk.bytes)
          IN  /\ E' = editor_set_status_message(e1, HelpMsg, now)
              /\ saved_rows' = e1.row
              /\ opened' = disk.bytes
              /\ pc' = "refresh"
              /\ UNCHANGED <<exit_code, tty, screen>>
     ELSE /\ E' = [E EXCEPT !.filename = Str(ArgName)]
          /\ UNCHANGED <<saved_rows, opened>>
          /\ pc' = "exit"
          /\ exit_code' = 1
          /\ tty' = AtExit(tty) /\ UNCHANGED screen
  /\ UNCHANGED <<quit_times, last_match, direction, cb, buf, buf_freed,
                 saved, disk, now, io_last, nq, trail, rd>>

\* editor_refresh_screen in the loop of main
Refresh ==
  /\ pc = "refresh"
  /\ LET r == editor_refresh_screen(E, now)
     IN  E' = r.e /\ screen' = screen \o r.writes
  /\ pc' = "key"
  /\ UNCHANGED <<quit_times, last_match, direction, exit_code, cb, buf, buf_freed,
                 saved, disk, now, hist, rd, tty>>

(***************************************************************************)
(* editor_process_keypress, one action for each case of its switch         *)
(***************************************************************************)
\* a case that breaks out of the switch, were quit_times not set again
KeyDoneNoReset(e) ==
  /\ E' = e
  /\ quit_times' = quit_times
  /\ nq' = 0
  /\ io_last' = <<"none", 0>>
  /\ pc' = "refresh"
  /\ trail' = Kept([op |-> "editor_process_keypress", e |-> E])
  /\ UNCHANGED <<last_match, direction, exit_code, cb, buf, buf_freed,
                 saved, disk, now, saved_rows, opened, rd, tty>> /\ screen' = <<>>

\* a case that breaks out of the switch with the editor state e
KeyDone(e) ==
  /\ E' = e
  /\ quit_times' = ED9T_QUIT_TIMES
  /\ nq' = 0
  /\ io_last' = <<"none", 0>>
  /\ pc' = "refresh"
  /\ trail' = Kept([op |-> "editor_process_keypress", e |-> E])
  /\ UNCHANGED <<last_match, direction, exit_code, cb, buf, buf_freed,
                 saved, disk, now, saved_rows, opened, rd, tty>> /\ screen' = <<>>

KeyEnter ==
  /\ pc = "key"
  /\ E.numrows < MaxRows /\ E.dirty < MaxDirty
  /\ KeyDone(editor_insert_newline(E))

WarnMsg(n) == Msg("WARNING!!! File has unsaved changes. Press Ctrl-Q %d more times to quit.", <<n>>)

\* Ctrl-Q, did the test of line 943 leave E.dirty out
KeyCtrlQWarnsClean ==
  /\ pc = "key"
  /\ IF quit_times > 0
     THEN /\ E' = editor_set_status_message(E, WarnMsg(quit_times), now)
          /\ quit_times' = quit_times - 1
          /\ pc' = "refresh"
          /\ UNCHANGED <<exit_code, tty>> /\ screen' = <<>>
     ELSE /\ pc' = "exit"
          /\ exit_code' = 0
          /\ tty' = AtExit(tty) /\ screen' = <<>>
          /\ UNCHANGED <<E, quit_times>>
  /\ nq' = nq + 1
  /\ io_last' = <<"none", 0>>
  /\ UNCHANGED <<last_match, direction, cb, buf, buf_freed, saved, disk, now,
                 saved_rows, opened, trail, rd>>

KeyCtrlQ ==
  /\ pc = "key"
  /\ IF E.dirty # 0 /\ quit_times > 0
     THEN /\ E' = editor_set_status_message(E, WarnMsg(quit_times), now)
          /\ quit_times' = quit_times - 1
          /\ pc' = "refresh"
          /\ UNCHANGED <<exit_code, tty>> /\ screen' = <<>>
     ELSE /\ pc' = "exit"
          /\ exit_code' = 0
          /\ tty' = AtExit(tty) /\ screen' = <<>>
          /\ UNCHANGED <<E, quit_times>>
  /\ nq' = nq + 1
  /\ io_last' = <<"none", 0>>
  /\ UNCHANGED <<last_match, direction, cb, buf, buf_freed, saved, disk, now,
                 saved_rows, opened, trail, rd>>

KeyDelete ==
  /\ pc = "key"
  /\ E.dirty < MaxDirty
  /\ \E c \in {BACKSPACE, CTRL_H, DEL_KEY} : KeyDone(DeleteKey(E, c))

KeyPage ==
  /\ pc = "key"
  /\ \E c \in {PAGE_UP, PAGE_DOWN} : KeyDone(PageKey(E, c))

KeyHome ==
  /\ pc = "key"
  /\ KeyDone([E EXCEPT !.cx = 0])

KeyEnd ==
  /\ pc = "key"
  /\ KeyDone(EndKey(E))

KeyArrow ==
  /\ pc = "key"
  /\ \E c \in {ARROW_UP, ARROW_DOWN, ARROW_LEFT, ARROW_RIGHT} :
        KeyDone(editor_move_cursor(E, c))

KeyNone ==
  /\ pc = "key"
  /\ \E c \in {CTRL_L, ESC} : KeyDone(E)

\* the bytes of all rows, counted for the bound on typing
RECURSIVE TotalBytes(_)
TotalBytes(rows) ==
  IF rows = <<>> THEN 0 ELSE Len(Head(rows).chars) + TotalBytes(Tail(rows))

\* the default case
KeyChar ==
  /\ pc = "key"
  /\ E.dirty < MaxDirty
  /\ TotalBytes(E.row) < MaxBytes
  /\ E.cy = E.numrows => E.numrows < MaxRows
  /\ \E c \in TypedChars : KeyDone(editor_insert_char(E, c))

\* the default case, for a control byte
KeyControl ==
  /\ pc = "key"
  /\ E.dirty < MaxDirty
  /\ \E c \in {CTRL_A} : KeyDone(editor_insert_char(E, c))

(***************************************************************************)
(* editor_save                                                             *)
(***************************************************************************)
CantSaveMsg == Msg("Can't save! I/O error: %s", <<>>)
WrittenMsg(len) == Msg("%d bytes written to disk", <<len>>)
SaveAbortedMsg == Msg("Save aborted", <<>>)

\* ftruncate: the file cut, or extended with zero bytes, to len bytes
Resize(f, len) == [i \in 1..len |-> IF i <= Len(f) THEN f[i] ELSE 0]

\* write: the first n bytes of f replaced by those of b
Overwrite(f, b, n) == [i \in 1..Len(f) |-> IF i <= n THEN b[i] ELSE f[i]]

\* What open, ftruncate and write can do: open fails, ftruncate fails, or
\* write returns n (-1, a short count, or len).
IoResults(len) ==
  {<<"open", 0>>, <<"ftruncate", 0>>} \cup {<<"write", n>> : n \in (-1)..len}

\* editor_save, were a short write taken for a full one
editor_save_short(e, d, io, t) ==
  LET b == editor_rows_to_string(e)
      len == Len(b)
      d1 == IF io[1] = "open" THEN d
            ELSE IF io[1] = "ftruncate" THEN File(d.bytes)
            ELSE File(Overwrite(Resize(d.bytes, len), b, io[2]))
  IN  IF io[1] = "write" /\ io[2] >= 0
      THEN [e |-> editor_set_status_message([e EXCEPT !.dirty = 0], WrittenMsg(len), t),
            d |-> d1, ok |-> TRUE]
      ELSE [e |-> editor_set_status_message(e, CantSaveMsg, t), d |-> d1, ok |-> FALSE]

\* editor_save from the call of editor_rows_to_string on, with E.filename
\* set; io is what the system calls do.  The editor state and the file.
editor_save(e, d, io, t) ==
  LET b == editor_rows_to_string(e)
      len == Len(b)
      d1 == IF io[1] = "open" THEN d
            ELSE IF io[1] = "ftruncate" THEN File(d.bytes)
            ELSE File(Overwrite(Resize(d.bytes, len), b, io[2]))
  IN  IF io[1] = "write" /\ io[2] = len
      THEN [e |-> editor_set_status_message([e EXCEPT !.dirty = 0], WrittenMsg(len), t),
            d |-> d1, ok |-> TRUE]
      ELSE [e |-> editor_set_status_message(e, CantSaveMsg, t), d |-> d1, ok |-> FALSE]

\* the results of the system calls tried in the editor's loop: open fails,
\* or all three succeed
SomeIoResults(len) ==
  {io \in IoResults(len) : io[1] = "open" \/ (io[1] = "write" /\ io[2] = len)}

\* the rest of editor_process_keypress after editor_save's system calls
SaveDone(e, io, t) ==
  LET r == editor_save(e, disk, io, now)
  IN  /\ E' = r.e
      /\ disk' = r.d
      /\ saved_rows' = IF r.ok THEN e.row ELSE saved_rows
      /\ io_last' = io
      /\ nq' = 0
      /\ quit_times' = ED9T_QUIT_TIMES
      /\ pc' = "refresh"
      /\ cb' = "none"
      /\ buf' = <<>>
      /\ buf_freed' = FALSE
      /\ trail' = t
      /\ UNCHANGED <<last_match, direction, exit_code, saved, now, opened, rd, tty>> /\ screen' = <<>>

\* Ctrl-S with a file name
KeyCtrlS ==
  /\ pc = "key"
  /\ ~E.filename.null
  /\ \E io \in SomeIoResults(Len(editor_rows_to_string(E))) : SaveDone(E, io, trail)

\* Ctrl-S with a file name, the system calls doing anything they can
KeyCtrlSAnyIo ==
  /\ pc = "key"
  /\ ~E.filename.null
  /\ \E io \in IoResults(Len(editor_rows_to_string(E))) : SaveDone(E, io, trail)

\* Ctrl-S with no file name: editor_prompt is entered
KeyCtrlSPrompt ==
  /\ pc = "key"
  /\ E.filename.null
  /\ cb' = "save"
  /\ buf' = <<>>
  /\ buf_freed' = FALSE
  /\ pc' = "prompt_refresh"
  /\ nq' = 0
  /\ io_last' = <<"none", 0>>
  /\ UNCHANGED <<E, quit_times, last_match, direction, exit_code, saved, disk, now,
                 saved_rows, opened, trail, rd, tty>> /\ screen' = <<>>

(***************************************************************************)
(* editor_find and its callback                                            *)
(***************************************************************************)
\* strstr(h, n): the 0-based offset of the first n in h, -1 for NULL
StrStr(h, n) ==
  LET at == {i \in 0..(Len(h) - Len(n)) : SubSeq(h, i + 1, i + Len(n)) = n}
  IN  IF at = {} THEN -1 ELSE CHOOSE i \in at : \A j \in at : i <= j

\* the for loop of editor_find_callback: the row of the match, -1 for none
RECURSIVE FindLoop(_, _, _, _, _)
FindLoop(e, query, dir, current, i) ==
  IF i >= e.numrows THEN -1
  ELSE LET c1 == current + dir
           c2 == IF c1 = -1 THEN e.numrows - 1
                 ELSE IF c1 = e.numrows THEN 0 ELSE c1
       IN  IF StrStr(e.row[c2 + 1].render, query) # -1 THEN c2
           ELSE FindLoop(e, query, dir, c2, i + 1)


\* editor_find_callback, were a row found counted as a change of the buffer
editor_find_callback_edits(e, lm, dir, query, k) ==
  IF k = CR \/ k = ESC THEN [e |-> e, last_match |-> -1, direction |-> 1]
  ELSE LET fwd == k = ARROW_RIGHT \/ k = ARROW_DOWN
           bwd == k = ARROW_LEFT \/ k = ARROW_UP
           lm1 == IF fwd \/ bwd THEN lm ELSE -1
           d1 == IF fwd THEN 1 ELSE IF bwd THEN -1 ELSE 1
           d2 == IF lm1 = -1 THEN 1 ELSE d1
           found == FindLoop(e, query, d2, lm1, 0)
       IN  IF found = -1 THEN [e |-> e, last_match |-> lm1, direction |-> d2]
           ELSE LET row == e.row[found + 1]
                IN  [e |-> [e EXCEPT !.cy = found,
                                     !.cx = editor_row_rx_to_cx(row, StrStr(row.render, query)),
                                     !.rowoff = e.numrows,
                                     !.dirty = e.dirty + 1],
                     last_match |-> found, direction |-> d2]


\* editor_find_callback, were Enter and Escape to leave the statics as they are
editor_find_callback_keeps(e, lm, dir, query, k) ==
  IF k = CR \/ k = ESC THEN [e |-> e, last_match |-> lm, direction |-> dir]
  ELSE LET fwd == k = ARROW_RIGHT \/ k = ARROW_DOWN
           bwd == k = ARROW_LEFT \/ k = ARROW_UP
           lm1 == IF fwd \/ bwd THEN lm ELSE -1
           d1 == IF fwd THEN 1 ELSE IF bwd THEN -1 ELSE 1
           d2 == IF lm1 = -1 THEN 1 ELSE d1
           found == FindLoop(e, query, d2, lm1, 0)
       IN  IF found = -1 THEN [e |-> e, last_match |-> lm1, direction |-> d2]
           ELSE LET row == e.row[found + 1]
                IN  [e |-> [e EXCEPT !.cy = found,
                                     !.cx = editor_row_rx_to_cx(row, StrStr(row.render, query)),
                                     !.rowoff = e.numrows],
                     last_match |-> found, direction |-> d2]

\* editor_find_callback up to its free(query): the editor state and the statics
editor_find_callback(e, lm, dir, query, k) ==
  IF k = CR \/ k = ESC THEN [e |-> e, last_match |-> -1, direction |-> 1]
  ELSE LET fwd == k = ARROW_RIGHT \/ k = ARROW_DOWN
           bwd == k = ARROW_LEFT \/ k = ARROW_UP
           lm1 == IF fwd \/ bwd THEN lm ELSE -1
           d1 == IF fwd THEN 1 ELSE IF bwd THEN -1 ELSE 1
           d2 == IF lm1 = -1 THEN 1 ELSE d1
           found == FindLoop(e, query, d2, lm1, 0)
       IN  IF found = -1 THEN [e |-> e, last_match |-> lm1, direction |-> d2]
           ELSE LET row == e.row[found + 1]
                IN  [e |-> [e EXCEPT !.cy = found,
                                     !.cx = editor_row_rx_to_cx(row, StrStr(row.render, query)),
                                     !.rowoff = e.numrows],
                     last_match |-> found, direction |-> d2]

\* Ctrl-F: editor_find up to its call of editor_prompt
KeyCtrlF ==
  /\ pc = "key"
  /\ saved' = [cx |-> E.cx, cy |-> E.cy, coloff |-> E.coloff, rowoff |-> E.rowoff]
  /\ cb' = "find"
  /\ buf' = <<>>
  /\ buf_freed' = FALSE
  /\ pc' = "prompt_refresh"
  /\ nq' = 0
  /\ io_last' = <<"none", 0>>
  /\ UNCHANGED <<E, quit_times, last_match, direction, exit_code, disk, now,
                 saved_rows, opened, trail, rd, tty>> /\ screen' = <<>>

(***************************************************************************)
(* editor_prompt                                                           *)
(*                                                                         *)
(* editor_find_callback ends with free(query), and query is the prompt's   *)
(* buf: after the first search key the prompt goes on with a freed buffer. *)
(* A read of the freed buffer gives any line (FreedReads), and a second    *)
(* free of it either returns or aborts the process.                        *)
(***************************************************************************)
PromptMsg(line) ==
  Msg(IF cb = "save" THEN "Save as: %s (ESC to cancel)"
                     ELSE "Search: %s (Use ESC/Arrows/Enter)", line)

\* what a read of buf gives when it holds b
BufReads(b) == IF buf_freed THEN FreedReads ELSE {b}

\* where free(buf) leaves the program: at next, or aborted on a double free
AfterFree(next) == IF buf_freed THEN {next, "abort"} ELSE {next}

\* history: the key c the prompt read with the line it then held, the keys
\* its callback was called with, and what it returned (StillOpen, NULL or the
\* line)
StillOpen == [null |-> FALSE, name |-> <<-1>>]

PromptKey(c, line, calls, ret) ==
  [op |-> "editor_prompt", callback |-> cb, key |-> c, line |-> line,
   calls |-> calls, ret |-> ret]

\* the top of the loop: the prompt shown and the screen drawn
PromptRefresh ==
  /\ pc = "prompt_refresh"
  /\ \E line \in BufReads(buf) :
        LET r == editor_refresh_screen(
                   editor_set_status_message(E, PromptMsg(line), now), now)
        IN  E' = r.e /\ screen' = screen \o r.writes
  /\ pc' = "prompt_key"
  /\ UNCHANGED <<quit_times, last_match, direction, exit_code, cb, buf, buf_freed,
                 saved, disk, now, hist, rd, tty>>

\* the bottom of the loop without its call of the callback
PromptLoopNoCallback(c, b) ==
  /\ buf' = b
  /\ pc' = "prompt_refresh"
  /\ trail' = Kept(PromptKey(c, b, <<>>, StillOpen))
  /\ UNCHANGED <<E, last_match, direction, buf_freed, quit_times, exit_code, cb,
                 saved, disk, now, saved_rows, opened, io_last, nq, rd, tty>> /\ screen' = <<>>

\* the bottom of the loop, line b in buf: callback(buf, c), and round again
PromptLoop(c, b) ==
  /\ buf' = b
  /\ IF cb = "find"
     THEN \E q \in BufReads(b) :
            LET r == editor_find_callback(E, last_match, direction, q, c)
            IN  /\ E' = r.e
                /\ last_match' = r.last_match
                /\ direction' = r.direction
                /\ IF c = CR \/ c = ESC
                   THEN /\ buf_freed' = buf_freed
                        /\ pc' = "prompt_refresh"
                   ELSE /\ buf_freed' = TRUE
                        /\ pc' \in AfterFree("prompt_refresh")
     ELSE /\ pc' = "prompt_refresh"
          /\ UNCHANGED <<E, last_match, direction, buf_freed>>
  /\ trail' = Kept(PromptKey(c, b, IF cb = "find" THEN <<c>> ELSE <<>>, StillOpen))
  /\ UNCHANGED <<quit_times, exit_code, cb, saved, disk, now, saved_rows, opened,
                 io_last, nq, rd, tty>> /\ screen' = <<>>

PromptBackspace ==
  /\ pc = "prompt_key"
  /\ \E c \in {DEL_KEY, CTRL_H, BACKSPACE} :
        PromptLoop(c, IF Len(buf) # 0 THEN SubSeq(buf, 1, Len(buf) - 1) ELSE buf)

PromptChar ==
  /\ pc = "prompt_key"
  /\ Len(buf) < MaxBuf
  /\ \E c \in PromptChars : PromptLoop(c, Append(buf, c))

\* Enter on an empty line, and the keys the prompt has no case for
PromptOther ==
  /\ pc = "prompt_key"
  /\ \E c \in {ARROW_LEFT, ARROW_RIGHT, ARROW_UP, ARROW_DOWN, CTRL_Q} \cup
              (IF Len(buf) = 0 THEN {CR} ELSE {}) :
        PromptLoop(c, buf)

\* Escape in the save prompt, were editor_save to go on without a file name
PromptEscSaveGoesOn ==
  /\ pc = "prompt_key"
  /\ cb = "save"
  /\ SaveDone(editor_set_status_message(E, SaveAbortedMsg, now), <<"open", 0>>,
              Kept(PromptKey(ESC, buf, <<>>, NULL)))

\* Escape in the save prompt: editor_prompt returns NULL, editor_save gives up
PromptEscSave ==
  /\ pc = "prompt_key"
  /\ cb = "save"
  /\ E' = editor_set_status_message(E, SaveAbortedMsg, now)
  /\ quit_times' = ED9T_QUIT_TIMES
  /\ pc' = "refresh"
  /\ cb' = "none"
  /\ buf' = <<>>
  /\ buf_freed' = FALSE
  /\ trail' = Kept(PromptKey(ESC, buf, <<>>, NULL))
  /\ UNCHANGED <<last_match, direction, exit_code, saved, disk, now, saved_rows,
                 opened, io_last, nq, rd, tty>> /\ screen' = <<>>

\* Escape in the search prompt: callback(buf, ESC), free(buf), and editor_find
\* restores the cursor (a free that aborts comes before the restoring)
PromptEscFind ==
  /\ pc = "prompt_key"
  /\ cb = "find"
  /\ LET r == editor_find_callback(editor_set_status_message(E, NoMsg, now),
                                   last_match, direction, buf, ESC)
     IN  /\ \E p \in AfterFree("refresh") :
               /\ pc' = p
               /\ E' = IF p = "refresh"
                        THEN [r.e EXCEPT !.cx = saved.cx, !.cy = saved.cy,
                                         !.coloff = saved.coloff, !.rowoff = saved.rowoff]
                        ELSE r.e
         /\ last_match' = r.last_match
         /\ direction' = r.direction
  /\ quit_times' = ED9T_QUIT_TIMES
  /\ cb' = "none"
  /\ buf' = <<>>
  /\ buf_freed' = FALSE
  /\ saved' = NoSaved
  /\ trail' = Kept(PromptKey(ESC, buf, <<ESC>>, NULL))
  /\ UNCHANGED <<exit_code, disk, now, saved_rows, opened, io_last, nq, rd, tty>> /\ screen' = <<>>

\* Enter on a line in the save prompt: the line is the file name
PromptEnterSave ==
  /\ pc = "prompt_key"
  /\ cb = "save"
  /\ Len(buf) # 0
  /\ LET e1 == [editor_set_status_message(E, NoMsg, now) EXCEPT !.filename = Str(buf)]
     IN  \E io \in SomeIoResults(Len(editor_rows_to_string(E))) : SaveDone(e1, io, Kept(PromptKey(CR, buf, <<>>, Str(buf))))

\* Enter on a line in the search prompt: callback(buf, '\r'), and editor_find
\* frees the line returned
PromptEnterFind ==
  /\ pc = "prompt_key"
  /\ cb = "find"
  /\ Len(buf) # 0
  /\ LET r == editor_find_callback(editor_set_status_message(E, NoMsg, now),
                                   last_match, direction, buf, CR)
     IN  /\ E' = r.e
         /\ last_match' = r.last_match
         /\ direction' = r.direction
  /\ quit_times' = ED9T_QUIT_TIMES
  /\ pc' \in AfterFree("refresh")
  /\ cb' = "none"
  /\ buf' = <<>>
  /\ buf_freed' = FALSE
  /\ saved' = NoSaved
  /\ trail' = Kept(PromptKey(CR, buf, <<CR>>, Str(buf)))
  /\ UNCHANGED <<exit_code, disk, now, saved_rows, opened, io_last, nq, rd, tty>> /\ screen' = <<>>

(***************************************************************************)
(* The editor                                                              *)
(***************************************************************************)
Next ==
  \/ StartNoArg
  \/ StartOpen
  \/ Refresh
  \/ KeyEnter
  \/ KeyCtrlQ
  \/ KeyCtrlS
  \/ KeyCtrlSPrompt
  \/ KeyDelete
  \/ KeyPage
  \/ KeyHome
  \/ KeyEnd
  \/ KeyCtrlF
  \/ KeyArrow
  \/ KeyNone
  \/ KeyChar
  \/ PromptRefresh
  \/ PromptBackspace
  \/ PromptChar
  \/ PromptOther
  \/ PromptEscSave
  \/ PromptEscFind
  \/ PromptEnterSave
  \/ PromptEnterFind

Spec == Init /\ [][Next]_vars

(***************************************************************************)
(* The file: a file of any bytes is opened and saved, with no edit         *)
(***************************************************************************)
\* bytes a file opened may hold
MaxFile == 3
FileBytes == {97, TAB, CR, LF}
AnyFiles == {File(f) : f \in SeqsUpTo(FileBytes, MaxFile)}

InitFile == InitWith(AnyFiles, Started, "start")

NextFile ==
  \/ StartOpen
  \/ Refresh
  \/ KeyCtrlSAnyIo

SpecFile == InitFile /\ [][NextFile]_vars

(***************************************************************************)
(* Saving: a buffer is edited and saved, the system calls doing anything   *)
(***************************************************************************)
InitSave == InitWith({File(<<97, LF, TAB>>)}, Started, "start")

NextSave ==
  \/ StartOpen
  \/ Refresh
  \/ KeyEnter
  \/ KeyDelete
  \/ KeyChar
  \/ KeyCtrlSAnyIo

SpecSave == InitSave /\ [][NextSave]_vars

(***************************************************************************)
(* The buffer operations, applied to any buffer                            *)
(***************************************************************************)
\* rows of a buffer the operations are applied to, and bytes of each row
MaxOpRows == 2
MaxOpLen == 2
OpChars == {97, TAB}

OpRows ==
  LET R == {editor_update_row([chars |-> c, render |-> <<>>]) :
              c \in SeqsUpTo(OpChars, MaxOpLen)}
  IN  SeqsUpTo(R, MaxOpRows)

\* the editor states with the rows rs: the cursor on a byte of a row, at the
\* end of a row, or past the last row
OpStates(rs) ==
  {[init_editor(1, 3) EXCEPT !.row = rs, !.numrows = Len(rs), !.cy = p[1], !.cx = p[2]] :
     p \in {q \in (0..Len(rs)) \X (0..MaxOpLen) :
              q[2] <= (IF q[1] < Len(rs) THEN Len(rs[q[1] + 1].chars) ELSE 0)}}

InitOps == InitWith({NoFile}, UNION {OpStates(rs) : rs \in OpRows}, "ops")

\* the operation named op, which takes E to e
Op(name, e) ==
  /\ pc = "ops"
  /\ Len(trail) < 2
  /\ E' = e
  /\ trail' = <<[op |-> name, e |-> E]>> \o trail
  /\ UNCHANGED <<quit_times, last_match, direction, pc, exit_code, cb, buf, buf_freed,
                 saved, disk, now, saved_rows, opened, io_last, nq, rd, tty, screen>>

OpInsertNewline == Op("editor_insert_newline", editor_insert_newline(E))

OpDelChar == Op("editor_del_char", editor_del_char(E))

OpInsertChar == \E c \in OpChars : Op("editor_insert_char", editor_insert_char(E, c))

NextOps ==
  \/ OpInsertNewline
  \/ OpDelChar
  \/ OpInsertChar

SpecOps == InitOps /\ [][NextOps]_vars

(***************************************************************************)
(* A row and its columns: a row of any bytes is made, a column of it is    *)
(* taken to its render column, and that back to a column                   *)
(***************************************************************************)
\* bytes of the row
MaxColLen == 8

InitRow == InitWith({NoFile}, Started, "row")

\* editor_insert_row of the bytes s, and the cursor put on column cx
RowInsert ==
  /\ pc = "row"
  /\ \E s \in SeqsUpTo(OpChars, MaxColLen) : \E cx \in 0..Len(s) :
        E' = [editor_insert_row(E, 0, s) EXCEPT !.cx = cx]
  /\ pc' = "row_cx"
  /\ UNCHANGED <<quit_times, last_match, direction, exit_code, cb, buf, buf_freed,
                 saved, disk, now, hist, rd, tty, screen>>

\* E.rx = editor_row_cx_to_rx(row, E.cx), as in editor_scroll
RowCxToRx ==
  /\ pc = "row_cx"
  /\ E' = [E EXCEPT !.rx = editor_row_cx_to_rx(E.row[E.cy + 1], E.cx)]
  /\ trail' = <<[op |-> "editor_row_cx_to_rx", e |-> E]>>
  /\ pc' = "row_rx"
  /\ UNCHANGED <<quit_times, last_match, direction, exit_code, cb, buf, buf_freed,
                 saved, disk, now, saved_rows, opened, io_last, nq, rd, tty, screen>>

\* E.cx = editor_row_rx_to_cx(row, rx), as in editor_find_callback
RowRxToCx ==
  /\ pc = "row_rx"
  /\ E' = [E EXCEPT !.cx = editor_row_rx_to_cx(E.row[E.cy + 1], E.rx)]
  /\ pc' = "row_done"
  /\ UNCHANGED <<quit_times, last_match, direction, exit_code, cb, buf, buf_freed,
                 saved, disk, now, hist, rd, tty, screen>>

NextRow ==
  \/ RowInsert
  \/ RowCxToRx
  \/ RowRxToCx

SpecRow == InitRow /\ [][NextRow]_vars

(***************************************************************************)
(* The row operations, applied to any buffer at any position               *)
(***************************************************************************)
\* the editor states with the rows rs, the cursor at the start of the buffer
RowOpStates == {[init_editor(1, 3) EXCEPT !.row = rs, !.numrows = Len(rs)] : rs \in OpRows}

InitRowOps == InitWith({NoFile}, RowOpStates, "rowops")

\* the operation named op, called with the position at (in row r, on the
\* bytes s), which takes E to e
RowOp(name, at, r, s, e) ==
  /\ pc = "rowops"
  /\ trail = <<>>
  /\ E' = e
  /\ trail' = <<[op |-> name, e |-> E, at |-> at, r |-> r, s |-> s]>>
  /\ UNCHANGED <<quit_times, last_match, direction, pc, exit_code, cb, buf, buf_freed,
                 saved, disk, now, saved_rows, opened, io_last, nq, rd, tty, screen>>

OpInsertRow ==
  \E at \in (-1)..(E.numrows + 1) : \E s \in SeqsUpTo(OpChars, 1) :
     RowOp("editor_insert_row", at, 0, s, editor_insert_row(E, at, s))

OpDelRow ==
  \E at \in (-1)..(E.numrows + 1) :
     RowOp("editor_del_row", at, 0, <<>>, editor_del_row(E, at))

OpRowDelChar ==
  \E r \in 0..(E.numrows - 1) : \E at \in (-1)..(Len(E.row[r + 1].chars) + 1) :
     RowOp("editor_row_del_char", at, r, <<>>, editor_row_del_char(E, r, at))

NextRowOps ==
  \/ OpInsertRow
  \/ OpDelRow
  \/ OpRowDelChar

SpecRowOps == InitRowOps /\ [][NextRowOps]_vars

(***************************************************************************)
(* editor_read_key: one action for each read() of it.  The terminal is in  *)
(* raw mode with VMIN = 0 and VTIME = 1, so a read returns 1 with a byte,  *)
(* 0 when no byte came in a tenth of a second, or -1 with errno set.       *)
(* The bytes are of the 7-bit set, which char holds with no change of      *)
(* value.                                                                  *)
(***************************************************************************)
\* reads of the first loop that may give no byte before one gives a byte
MaxIdle == 2

\* ESC, '[', 'O', 'A'..'D', 'F', 'H', '0'..'9', '~', DEL, 'a', 'x', '\r'
ReadBytes ==
  {ESC, 91, 79, 65, 66, 67, 68, 70, 72, 126, BACKSPACE, 97, 120, CR} \cup (48..57)

\* what a read(STDIN_FILENO, &c, 1) gives: nread, the byte, and whether errno
\* is EAGAIN
ReadResults ==
  {[nread |-> 1, c |-> b, eagain |-> FALSE] : b \in ReadBytes} \cup
  {[nread |-> 0, c |-> 0, eagain |-> FALSE]} \cup
  {[nread |-> -1, c |-> 0, eagain |-> a] : a \in BOOLEAN}

\* the test for a digit, were it to let any byte through
IsDigitAny(c) == TRUE

\* seq[1] >= '0' && seq[1] <= '9'
IsDigit(c) == c >= 48 /\ c <= 57

\* the switch after ESC [ digit ~, were 5 and 6 the other way round
EscTildeSwapped(d) ==
  CASE d = 49 -> HOME_KEY
    [] d = 51 -> DEL_KEY
    [] d = 52 -> END_KEY
    [] d = 53 -> PAGE_DOWN
    [] d = 54 -> PAGE_UP
    [] d = 55 -> HOME_KEY
    [] d = 56 -> END_KEY
    [] OTHER -> ESC

\* switch (seq[1]) after ESC [ digit ~
EscTilde(d) ==
  CASE d = 49 -> HOME_KEY
    [] d = 51 -> DEL_KEY
    [] d = 52 -> END_KEY
    [] d = 53 -> PAGE_UP
    [] d = 54 -> PAGE_DOWN
    [] d = 55 -> HOME_KEY
    [] d = 56 -> END_KEY
    [] OTHER -> ESC

\* switch (seq[1]) after ESC [
EscBracket(c) ==
  CASE c = 65 -> ARROW_UP
    [] c = 66 -> ARROW_DOWN
    [] c = 67 -> ARROW_RIGHT
    [] c = 68 -> ARROW_LEFT
    [] c = 72 -> HOME_KEY
    [] c = 70 -> END_KEY
    [] OTHER -> ESC

\* the switch after ESC O, were a byte with no case returned as it is
EscOAny(c) ==
  CASE c = 72 -> HOME_KEY
    [] c = 70 -> END_KEY
    [] OTHER -> c

\* switch (seq[1]) after ESC O
EscO(c) ==
  CASE c = 72 -> HOME_KEY
    [] c = 70 -> END_KEY
    [] OTHER -> ESC

\* a read has given r; editor_read_key goes on at p, or returns ret at
\* p = "key_read"
ReadStep(r, p, seq, ret) ==
  /\ rd' = [seq |-> seq, ret |-> ret, reads |-> Append(rd.reads, r)]
  /\ pc' = p
  /\ UNCHANGED <<E, quit_times, last_match, direction, exit_code, cb, buf, buf_freed,
                 saved, disk, now, hist, tty, screen>>

\* the while loop: a read that gives a byte ends it
ReadFirst ==
  /\ pc = "read_key"
  /\ \E r \in ReadResults :
        /\ r.nread = 1
        /\ IF r.c = ESC THEN ReadStep(r, "read_seq0", <<>>, -1)
                        ELSE ReadStep(r, "key_read", <<>>, r.c)

\* the while loop: a read that gives no byte, and the loop goes round
ReadIdle ==
  /\ pc = "read_key"
  /\ Len(rd.reads) < MaxIdle
  /\ \E r \in ReadResults :
        /\ r.nread # 1
        /\ ~(r.nread = -1 /\ ~r.eagain)
        /\ ReadStep(r, "read_key", <<>>, -1)

\* the while loop: read fails, and the editor dies
ReadDie ==
  /\ pc = "read_key"
  /\ \E r \in ReadResults :
        /\ r.nread = -1 /\ ~r.eagain
        /\ rd' = [rd EXCEPT !.reads = Append(rd.reads, r)]
  /\ pc' = "exit"
  /\ exit_code' = 1
  /\ tty' = AtExit(tty) /\ UNCHANGED screen
  /\ UNCHANGED <<E, quit_times, last_match, direction, cb, buf, buf_freed,
                 saved, disk, now, hist>>

\* read(STDIN_FILENO, &seq[0], 1)
ReadSeq0 ==
  /\ pc = "read_seq0"
  /\ \E r \in ReadResults :
        IF r.nread # 1 THEN ReadStep(r, "key_read", rd.seq, ESC)
        ELSE ReadStep(r, "read_seq1", <<r.c>>, -1)

\* read(STDIN_FILENO, &seq[1], 1), and the sequences of two bytes
ReadSeq1 ==
  /\ pc = "read_seq1"
  /\ \E r \in ReadResults :
        IF r.nread # 1 THEN ReadStep(r, "key_read", rd.seq, ESC)
        ELSE LET seq == Append(rd.seq, r.c)
             IN  IF seq[1] = 91
                 THEN IF IsDigit(seq[2]) THEN ReadStep(r, "read_seq2", seq, -1)
                      ELSE ReadStep(r, "key_read", seq, EscBracket(seq[2]))
                 ELSE IF seq[1] = 79 THEN ReadStep(r, "key_read", seq, EscO(seq[2]))
                 ELSE ReadStep(r, "key_read", seq, ESC)

\* read(STDIN_FILENO, &seq[2], 1), and the sequences of three bytes
ReadSeq2 ==
  /\ pc = "read_seq2"
  /\ \E r \in ReadResults :
        IF r.nread # 1 THEN ReadStep(r, "key_read", rd.seq, ESC)
        ELSE LET seq == Append(rd.seq, r.c)
             IN  IF seq[3] = 126 THEN ReadStep(r, "key_read", seq, EscTilde(seq[2]))
                 ELSE ReadStep(r, "key_read", seq, ESC)

\* the caller has the key, and calls editor_read_key again
ReadAgain ==
  /\ pc = "key_read"
  /\ rd' = NoRead
  /\ pc' = "read_key"
  /\ UNCHANGED <<E, quit_times, last_match, direction, exit_code, cb, buf, buf_freed,
                 saved, disk, now, hist, tty, screen>>

InitKeys == InitWith({NoFile}, Started, "read_key")

NextKeys ==
  \/ ReadFirst
  \/ ReadIdle
  \/ ReadDie
  \/ ReadSeq0
  \/ ReadSeq1
  \/ ReadSeq2
  \/ ReadAgain

SpecKeys == InitKeys /\ [][NextKeys]_vars

\* a read returns in a tenth of a second, with a byte or without
SpecKeysFair ==
  /\ SpecKeys
  /\ WF_vars(ReadSeq0)
  /\ WF_vars(ReadSeq1)
  /\ WF_vars(ReadSeq2)

(***************************************************************************)
(* editor_scroll, applied to any buffer, cursor, offsets and window        *)
(***************************************************************************)
\* the greatest E.rowoff and E.coloff editor_scroll is applied to
MaxOff == 3
\* the windows: <<screenrows, screencols>>
ScrollSizes == {1, 2} \X {1, 3}

\* the buffers scrolled: some rows, each of the same bytes
ScrollRows ==
  {[i \in 1..n |-> editor_update_row([chars |-> c, render |-> <<>>])] :
     c \in SeqsUpTo(OpChars, MaxOpLen), n \in 0..MaxOpRows}

ScrollStates ==
  {[e EXCEPT !.rowoff = o[1], !.coloff = o[2], !.screenrows = z[1], !.screencols = z[2]] :
     e \in UNION {OpStates(rs) : rs \in ScrollRows},
     o \in (0..MaxOff) \X (0..MaxOff),
     z \in ScrollSizes}

InitScroll == InitWith({NoFile}, ScrollStates, "scroll")

Scroll ==
  /\ pc = "scroll"
  /\ E' = editor_scroll(E)
  /\ trail' = <<[op |-> "editor_scroll", e |-> E]>>
  /\ pc' = "scrolled"
  /\ UNCHANGED <<quit_times, last_match, direction, exit_code, cb, buf, buf_freed,
                 saved, disk, now, saved_rows, opened, io_last, nq, rd, tty, screen>>

NextScroll == Scroll

SpecScroll == InitScroll /\ [][NextScroll]_vars

(***************************************************************************)
(* Searching: Ctrl-F pressed on a buffer of any rows, and the keys of the  *)
(* search prompt                                                           *)
(***************************************************************************)
InitFind == InitWith({NoFile}, UNION {OpStates(rs) : rs \in OpRows}, "key")

NextFind ==
  \/ Refresh
  \/ KeyCtrlF
  \/ PromptRefresh
  \/ PromptBackspace
  \/ PromptChar
  \/ PromptOther
  \/ PromptEscFind
  \/ PromptEnterFind

SpecFind == InitFind /\ [][NextFind]_vars

(***************************************************************************)
(* The prompt: Ctrl-S without a file name and Ctrl-F, on a buffer of at    *)
(* most one row, saved or not, the cursor at its start, with the keys of   *)
(* the prompt                                                              *)
(* written down in trail                                                   *)
(***************************************************************************)
PromptStates ==
  {[init_editor(1, 3) EXCEPT !.row = rs, !.numrows = Len(rs), !.dirty = d] :
     rs \in {r \in OpRows : Len(r) <= 1}, d \in {0, 1}}

InitPrompt == InitKeeping(PromptStates, "key")

NextPrompt ==
  \/ Refresh
  \/ KeyCtrlSPrompt
  \/ KeyCtrlF
  \/ PromptRefresh
  \/ PromptBackspace
  \/ PromptChar
  \/ PromptOther
  \/ PromptEscSave
  \/ PromptEscFind
  \/ PromptEnterSave
  \/ PromptEnterFind

SpecPrompt == InitPrompt /\ [][NextPrompt]_vars

(***************************************************************************)
(* Keys on a buffer of any rows: the Delete keys and a control byte,       *)
(* pressed with the cursor anywhere in a window of one or two rows         *)
(***************************************************************************)
InitKeypress ==
  InitWith({NoFile},
           {[e EXCEPT !.screenrows = sr] :
              e \in UNION {OpStates(rs) : rs \in OpRows}, sr \in {1, 2}},
           "refresh")

NextKeypress ==
  \/ Refresh
  \/ KeyDelete
  \/ KeyControl

SpecKeypress == InitKeypress /\ [][NextKeypress]_vars

(***************************************************************************)
(* Paging: Page Up and Page Down on buffers of empty rows and rows of a    *)
(* bytes, from every cursor and every window of one or two rows that holds *)
(* it                                                                      *)
(***************************************************************************)
MaxPageRows == 3

PageRows ==
  SeqsUpTo({editor_update_row([chars |-> c, render |-> <<>>]) :
              c \in {<<>>, [i \in 1..MaxOpLen |-> 97]}}, MaxPageRows)

PageStates ==
  {editor_scroll([e EXCEPT !.screenrows = sr, !.rowoff = ro]) :
     e \in UNION {OpStates(rs) : rs \in PageRows},
     sr \in {1, 2}, ro \in 0..MaxPageRows}

InitPage == InitKeeping(PageStates, "key")

NextPage ==
  \/ Refresh
  \/ KeyPage

SpecPage == InitPage /\ [][NextPage]_vars

(***************************************************************************)
(* The terminal: main from its first line, with the keys that end the      *)
(* program or lead to an end of it                                         *)
(***************************************************************************)
\* die(s): exit(1)
Die ==
  /\ pc' = "exit"
  /\ exit_code' = 1

\* enable_raw_mode: tcgetattr fails, or disable_raw_mode is registered and
\* tcsetattr fails or sets the raw attributes
EnableRawMode ==
  /\ pc = "main"
  /\ \/ Die /\ tty' = AtExit(tty) /\ UNCHANGED screen
     \/ Die /\ tty' = AtExit([tty EXCEPT !.atexit = TRUE]) /\ UNCHANGED screen
     \/ /\ tty' = [mode |-> "raw", atexit |-> TRUE, acquired |-> TRUE] /\ UNCHANGED screen
        /\ pc' = "init_editor"
        /\ exit_code' = exit_code
  /\ UNCHANGED <<E, quit_times, last_match, direction, cb, buf, buf_freed,
                 saved, disk, now, hist, rd>>

\* init_editor: get_window_size fails, or gives a window
InitEditor ==
  /\ pc = "init_editor"
  /\ \/ Die /\ tty' = AtExit(tty) /\ E' = E /\ UNCHANGED screen
     \/ /\ E' \in Started
        /\ pc' = "start"
        /\ UNCHANGED <<exit_code, tty, screen>>
  /\ UNCHANGED <<quit_times, last_match, direction, cb, buf, buf_freed,
                 saved, disk, now, hist, rd>>

\* editor_read_key, called for a key of the editor or of a prompt: read fails
KeyDie ==
  /\ pc \in {"key", "prompt_key"}
  /\ Die
  /\ tty' = AtExit(tty) /\ screen' = <<>>
  /\ UNCHANGED <<E, quit_times, last_match, direction, cb, buf, buf_freed,
                 saved, disk, now, hist, rd>>

\* E before init_editor: a global, all zero
InitTerm == InitAll(StartFiles, {init_editor(0, 0)}, "main", <<>>, CookedTty)

NextTerm ==
  \/ EnableRawMode
  \/ InitEditor
  \/ StartNoArg
  \/ StartOpen
  \/ Refresh
  \/ KeyChar
  \/ KeyCtrlQ
  \/ KeyDie
  \/ KeyCtrlF
  \/ PromptRefresh
  \/ PromptBackspace
  \/ PromptChar
  \/ PromptOther
  \/ PromptEscFind
  \/ PromptEnterFind

SpecTerm == InitTerm /\ [][NextTerm]_vars

(***************************************************************************)
(* The message bar: time passes while the editor runs                      *)
(***************************************************************************)
\* the seconds time(NULL) may come to
MaxNow == 6

\* a second passes, before a redraw or while the editor waits for a key
Tick ==
  /\ pc \in {"refresh", "key"}
  /\ now < MaxNow
  /\ now' = now + 1
  /\ UNCHANGED <<E, quit_times, last_match, direction, pc, exit_code, cb, buf,
                 buf_freed, saved, disk, hist, rd, tty, screen>>

InitMsg == InitWith({NoFile}, Started, "start")

NextMsg ==
  \/ StartNoArg
  \/ Refresh
  \/ Tick
  \/ KeyChar
  \/ KeyCtrlQ

SpecMsg == InitMsg /\ [][NextMsg]_vars

(***************************************************************************)
(* The earlier snapshots, src/ed9core/ed9t.c and src/unnamed/part_000:     *)
(* main opens a file of any bytes                                          *)
(***************************************************************************)
\* editor_append_row of ed9t.c, whose rows have no render
editor_append_row_ed9t(e, s) ==
  [e EXCEPT !.row = Append(e.row, [chars |-> s]), !.numrows = e.numrows + 1]

\* editor_append_row of part_000
editor_append_row_part_000(e, s) ==
  [e EXCEPT !.row = Append(e.row, editor_update_row([chars |-> s, render |-> <<>>])),
            !.numrows = e.numrows + 1]

\* the while loop of editor_open in the snapshot v, getline reading on from
\* offset p of f
RECURSIVE OpenLoopSnapshot(_, _, _, _)
OpenLoopSnapshot(v, e, f, p) ==
  IF p >= Len(f) THEN e
  ELSE LET q == GetLineEnd(f, p)
           line == StripLineEnd(SubSeq(f, p + 1, q))
       IN  OpenLoopSnapshot(v, IF v = "ed9t" THEN editor_append_row_ed9t(e, line)
                                            ELSE editor_append_row_part_000(e, line),
                            f, q)

\* editor_open of ed9t.c: one getline before the loop, whose line is not used
editor_open_ed9t(e, f) == OpenLoopSnapshot("ed9t", e, f, GetLineEnd(f, 0))

\* editor_open of part_000: the same, after the file name is kept
editor_open_part_000(e, name, f) ==
  OpenLoopSnapshot("part_000", [e EXCEPT !.filename = name], f, GetLineEnd(f, 0))

\* main of ed9t.c with a file name, up to its loop
StartOpenEd9t ==
  /\ pc = "main_snapshot"
  /\ disk.exists
  /\ E' = editor_open_ed9t(E, disk.bytes)
  /\ opened' = disk.bytes
  /\ pc' = "refresh_ed9t"
  /\ UNCHANGED <<quit_times, last_match, direction, exit_code, cb, buf, buf_freed,
                 saved, disk, now, saved_rows, io_last, nq, trail, rd, tty, screen>>

\* main of part_000 with a file name, up to its loop
StartOpenPart000 ==
  /\ pc = "main_snapshot"
  /\ disk.exists
  /\ E' = editor_set_status_message(editor_open_part_000(E, Str(ArgName), disk.bytes),
                                    Msg("HELP: Ctrl-Q = quit", <<>>), now)
  /\ opened' = disk.bytes
  /\ pc' = "refresh_part_000"
  /\ UNCHANGED <<quit_times, last_match, direction, exit_code, cb, buf, buf_freed,
                 saved, disk, now, saved_rows, io_last, nq, trail, rd, tty, screen>>

InitSnapshots == InitWith(AnyFiles, Started, "main_snapshot")

NextSnapshots ==
  \/ StartOpenEd9t
  \/ StartOpenPart000

SpecSnapshots == InitSnapshots /\ [][NextSnapshots]_vars

(***************************************************************************)
(* Quitting                                                                *)
(***************************************************************************)
\* C1: with a dirty buffer and the quit counter at its initial value, the
\* first and the second Ctrl-Q in a row do not exit the editor, and the third
\* Ctrl-Q in a row exits it.
ThirdCtrlQExits ==
  (E.dirty # 0 /\ nq > 0) => (IF nq < 3 THEN pc # "exit" ELSE pc = "exit")

\* C2: a key other than Ctrl-Q sets the quit counter to its initial value
\* again, so the count of Ctrl-Q keys in a row starts over, and a Ctrl-Q that
\* only warns does not: between keys the counter is its initial value less the
\* Ctrl-Q keys read in a row.
QuitTimesCountsCtrlQInARow ==
  pc \in {"refresh", "key"} => quit_times = ED9T_QUIT_TIMES - nq

\* a warning is on the status line, and a key other than Ctrl-Q came after it
CtrlQRunBroken ==
  /\ pc = "refresh"
  /\ E.dirty # 0
  /\ E.statusmsg.kind = WarnMsg(0).kind
  /\ nq = 0
  /\ quit_times = ED9T_QUIT_TIMES

(***************************************************************************)
(* The dirty count                                                         *)
(***************************************************************************)
\* C3: in every reachable state, dirty = 0 implies that the rows are the rows
\* of the last successful open or save, or no rows when there was none.
CleanMeansSaved ==
  E.dirty = 0 => (E.row = saved_rows /\ E.numrows = Len(saved_rows))

\* an edited buffer has been saved
CleanAfterSave ==
  /\ pc = "refresh"
  /\ io_last[1] = "write"
  /\ E.dirty = 0
  /\ E.numrows > 0
  /\ E.filename # Str(ArgName)

(***************************************************************************)
(* Open, then save                                                         *)
(***************************************************************************)
\* the last save wrote every byte
SavedAll == E.statusmsg.kind = WrittenMsg(0).kind

\* f with one '\n' put after it, unless f is empty or ends in '\n'
WithLastNewline(f) ==
  IF f # <<>> /\ f[Len(f)] # LF THEN Append(f, LF) ELSE f

\* f[i] is a '\r' with nothing but '\r' between it and the end of its line
IsLineEndCR(f, i) ==
  /\ f[i] = CR
  /\ \E k \in i..Len(f) :
        /\ \A j \in i..k : f[j] = CR
        /\ k = Len(f) \/ f[k + 1] = LF

\* f without the '\r's at the ends of its lines
WithoutLineEndCR(f) ==
  LET keep == SelectSeq([i \in 1..Len(f) |-> i], LAMBDA i : ~IsLineEndCR(f, i))
  IN  [j \in 1..Len(keep) |-> f[keep[j]]]

\* f as it is written back
Normalized(f) ==
  WithoutLineEndCR(f) \o (IF f # <<>> /\ f[Len(f)] # LF THEN <<LF>> ELSE <<>>)

\* C4 as stated: a file opened and saved with no edit holds the bytes it held,
\* but for one '\n' at the end of the last row.
RoundTripIdentical ==
  SavedAll => disk.bytes = WithLastNewline(opened)

\* C4: a file opened and saved with no edit holds the bytes it held, but for
\* the '\r's at the end of each line, which are left out, and for one '\n' at
\* the end of the last row.
RoundTripNormalized ==
  SavedAll => disk.bytes = Normalized(opened)

\* a file with a '\r' at the end of a line and a '\r' inside a line has been
\* opened and saved
RoundTripOfCR ==
  /\ SavedAll
  /\ \E i \in 1..Len(opened) : IsLineEndCR(opened, i)
  /\ \E i \in 1..Len(opened) : opened[i] = CR /\ ~IsLineEndCR(opened, i)

(***************************************************************************)
(* editor_save's result                                                    *)
(***************************************************************************)
\* the sum over the rows of (length + 1)
RECURSIVE SumRowBytes(_)
SumRowBytes(rows) ==
  IF rows = <<>> THEN 0 ELSE (Len(Head(rows).chars) + 1) + SumRowBytes(Tail(rows))

\* C5: when open, ftruncate or write fails, a short write included, the save
\* sets the "Can't save" message and leaves dirty and every row as they were;
\* only when all three succeed does it set dirty to 0 and report the bytes
\* written, the sum over the rows of (length + 1).
SaveAllOrNothing ==
  [][KeyCtrlSAnyIo =>
       /\ E'.row = E.row
       /\ E'.numrows = E.numrows
       /\ IF io_last'[1] = "write" /\ io_last'[2] = SumRowBytes(E.row)
          THEN /\ E'.dirty = 0
               /\ E'.statusmsg = WrittenMsg(SumRowBytes(E.row))
          ELSE /\ E'.dirty = E.dirty
               /\ E'.statusmsg = CantSaveMsg]_vars

\* write has written a part of an edited buffer
ShortWriteOfDirty ==
  /\ io_last[1] = "write"
  /\ io_last[2] > 0
  /\ io_last[2] < SumRowBytes(E.row)
  /\ E.statusmsg = CantSaveMsg
  /\ E.dirty # 0

(***************************************************************************)
(* The render of a row                                                     *)
(***************************************************************************)
\* the next render column after col that is a multiple of the tab stop
NextTabStop(col) ==
  CHOOSE n \in (col + 1)..(col + ED9T_TAB_STOP) : n % ED9T_TAB_STOP = 0

\* the render column at which the i-th byte of chars starts; for
\* i = Len(chars) + 1, the length of the expansion
RECURSIVE ColumnOf(_, _)
ColumnOf(chars, i) ==
  IF i = 1 THEN 0
  ELSE LET col == ColumnOf(chars, i - 1)
       IN  IF chars[i - 1] = TAB THEN NextTabStop(col) ELSE col + 1

\* render is the tab expansion of chars
IsTabExpansion(chars, render) ==
  /\ Len(render) = ColumnOf(chars, Len(chars) + 1)
  /\ \A i \in 1..Len(chars) :
        IF chars[i] = TAB
        THEN \A k \in (ColumnOf(chars, i) + 1)..ColumnOf(chars, i + 1) : render[k] = SPACE
        ELSE render[ColumnOf(chars, i) + 1] = chars[i]

\* C6: wherever a row can be read, its render is the tab expansion of its
\* chars: a tab gives spaces up to the next column that is a multiple of 8, at
\* least one, and any other byte is copied; no operation leaves a render stale.
RenderInSync ==
  \A i \in 1..Len(E.row) : IsTabExpansion(E.row[i].chars, E.row[i].render)

\* an operation has made a row with a tab after a byte
TabAfterByteRendered ==
  \E i \in 1..Len(E.row) :
     /\ E.row[i].chars = <<97, TAB>>
     /\ Len(E.row[i].render) = ED9T_TAB_STOP
     /\ E.dirty # 0

(***************************************************************************)
(* The cursor                                                              *)
(***************************************************************************)
\* C7: after any keys, 0 <= cy <= numrows and 0 <= cx <= the length of row
\* cy, with cx = 0 when cy = numrows.
CursorInBuffer ==
  /\ 0 <= E.cy /\ E.cy <= E.numrows
  /\ 0 <= E.cx
  /\ E.cx <= (IF E.cy < E.numrows THEN Len(E.row[E.cy + 1].chars) ELSE 0)

\* keys have taken the cursor from the end of a row to below the last row
CursorPastLastRow ==
  /\ pc = "refresh"
  /\ E.numrows > 1
  /\ E.cy = E.numrows
  /\ E.cx = 0
  /\ Len(E.row[E.numrows].chars) > 0

(***************************************************************************)
(* editor_insert_newline and editor_del_char                               *)
(***************************************************************************)
\* the last operation was op
Did(op) == trail # <<>> /\ trail[1].op = op

\* the chars of the rows
CharsOf(rows) == [i \in 1..Len(rows) |-> rows[i].chars]

\* C8: editor_insert_newline at (cy, cx) puts an empty row at cy when cx = 0,
\* the former row cy going to cy + 1 as it was; otherwise row cy keeps its
\* first cx bytes and a new row cy + 1 holds the bytes from cx on; the other
\* rows keep their content and order, and the cursor ends at (cy + 1, 0).
InsertNewlineSplits ==
  Did("editor_insert_newline") =>
    LET e == trail[1].e
        old == CharsOf(e.row)
        new == CharsOf(E.row)
    IN  /\ E.numrows = e.numrows + 1
        /\ Len(new) = Len(old) + 1
        /\ \A i \in 1..e.cy : new[i] = old[i]
        /\ \A i \in (e.cy + 2)..Len(old) : new[i + 1] = old[i]
        /\ IF e.cx = 0
           THEN /\ new[e.cy + 1] = <<>>
                /\ e.cy < Len(old) => new[e.cy + 2] = old[e.cy + 1]
           ELSE /\ new[e.cy + 1] = SubSeq(old[e.cy + 1], 1, e.cx)
                /\ new[e.cy + 2] = SubSeq(old[e.cy + 1], e.cx + 1, Len(old[e.cy + 1]))
        /\ E.cy = e.cy + 1
        /\ E.cx = 0

\* a row with a row after it has been split between two bytes
SplitInsideRow ==
  /\ Did("editor_insert_newline")
  /\ trail[1].e.cy + 1 < trail[1].e.numrows
  /\ trail[1].e.cx > 0
  /\ trail[1].e.cx < Len(trail[1].e.row[trail[1].e.cy + 1].chars)

\* C9: editor_del_char changes nothing at (0, 0) and on the row past the
\* last; with cx > 0 it takes the byte at cx - 1 out of row cy and cx goes
\* down by one; with cx = 0 and cy > 0 it puts row cy's bytes after row
\* cy - 1's, removes row cy, and the cursor is at (cy - 1, the former length
\* of row cy - 1).
DelCharCases ==
  Did("editor_del_char") =>
    LET e == trail[1].e
        old == CharsOf(e.row)
        new == CharsOf(E.row)
    IN  IF e.cy = e.numrows \/ (e.cx = 0 /\ e.cy = 0) THEN E = e
        ELSE IF e.cx > 0
        THEN /\ E.numrows = e.numrows /\ Len(new) = Len(old)
             /\ \A i \in 1..Len(old) : i # e.cy + 1 => new[i] = old[i]
             /\ new[e.cy + 1] = SubSeq(old[e.cy + 1], 1, e.cx - 1) \o
                                SubSeq(old[e.cy + 1], e.cx + 1, Len(old[e.cy + 1]))
             /\ E.cy = e.cy
             /\ E.cx = e.cx - 1
        ELSE /\ E.numrows = e.numrows - 1 /\ Len(new) = Len(old) - 1
             /\ \A i \in 1..(e.cy - 1) : new[i] = old[i]
             /\ new[e.cy] = old[e.cy] \o old[e.cy + 1]
             /\ \A i \in (e.cy + 2)..Len(old) : new[i - 1] = old[i]
             /\ E.cy = e.cy - 1
             /\ E.cx = Len(old[e.cy])

\* two rows that hold bytes have been joined
JoinedRows ==
  /\ Did("editor_del_char")
  /\ trail[1].e.cx = 0
  /\ trail[1].e.cy > 0
  /\ trail[1].e.cy < trail[1].e.numrows
  /\ Len(trail[1].e.row[trail[1].e.cy].chars) > 0
  /\ Len(trail[1].e.row[trail[1].e.cy + 1].chars) > 0

\* editor_insert_newline on a row of the buffer, and then editor_del_char
SplitThenJoin ==
  /\ Len(trail) = 2
  /\ trail[2].op = "editor_insert_newline"
  /\ trail[1].op = "editor_del_char"
  /\ trail[2].e.cy < trail[2].e.numrows

\* C10: for every buffer, every row cy of it and every column k from 0 to the
\* length of row cy, editor_insert_newline at (cy, k) and then editor_del_char
\* give the rows there were, as many and with the same contents, and the
\* cursor at (cy, k).
SplitThenJoinRestores ==
  SplitThenJoin =>
    /\ E.numrows = trail[2].e.numrows
    /\ E.row = trail[2].e.row
    /\ E.cy = trail[2].e.cy
    /\ E.cx = trail[2].e.cx

\* a row has been split between two bytes, one of them a tab, and joined again
SplitAtTabThenJoin ==
  /\ SplitThenJoin
  /\ trail[2].e.cx = 1
  /\ trail[2].e.row[trail[2].e.cy + 1].chars = <<97, TAB>>
  /\ trail[2].e.numrows > 1

\* editor_insert_char on a row of the buffer, and then editor_del_char
InsertThenDelete ==
  /\ Len(trail) = 2
  /\ trail[2].op = "editor_insert_char"
  /\ trail[1].op = "editor_del_char"
  /\ trail[2].e.cy < trail[2].e.numrows

\* C11: for every row cy of the buffer, every cx from 0 to the row's length
\* and every byte, editor_insert_char at (cy, cx) and then editor_del_char
\* give the row its former content and the cursor (cy, cx), the other rows
\* being as they were.
InsertThenDeleteRestores ==
  InsertThenDelete =>
    /\ E.numrows = trail[2].e.numrows
    /\ E.row = trail[2].e.row
    /\ E.cy = trail[2].e.cy
    /\ E.cx = trail[2].e.cx

\* a tab has been put between two bytes of a row, and taken out again
InsertTabInsideRowThenDelete ==
  /\ InsertThenDelete
  /\ trail[2].e.cx = 1
  /\ Len(trail[2].e.row[trail[2].e.cy + 1].chars) = 2
  /\ trail[1].e.row[trail[2].e.cy + 1].chars[2] = TAB
  /\ trail[2].e.numrows > 1

(***************************************************************************)
(* Columns and render columns                                              *)
(***************************************************************************)
\* C12: for any row, with tabs or without, and any cx from 0 to the row's
\* length, editor_row_rx_to_cx(row, editor_row_cx_to_rx(row, cx)) = cx.
CxToRxAndBack ==
  pc = "row_done" => E.cx = trail[1].e.cx

\* a column after a tab and a byte has been taken to its render column and back
ColumnAfterTabAndBack ==
  /\ pc = "row_done"
  /\ E.cx = 2
  /\ E.rx = ED9T_TAB_STOP + 1
  /\ Len(E.row[1].chars) > 2
  /\ E.row[1].chars[3] = TAB

\* the row has no tab
NoTab(row) == \A i \in 1..Len(row.chars) : row.chars[i] # TAB

\* every tab of the row is on the last column before a tab stop, where its
\* expansion is one space
TabsFillOneColumn(row) ==
  \A i \in 1..Len(row.chars) :
     row.chars[i] = TAB => ColumnOf(row.chars, i) % ED9T_TAB_STOP = ED9T_TAB_STOP - 1

\* C13 as stated: for every row, the render is at least as long as the chars,
\* and as long as the chars if and only if the row has no tab.
RenderLongerIffTab ==
  \A i \in 1..Len(E.row) :
     /\ Len(E.row[i].render) >= Len(E.row[i].chars)
     /\ Len(E.row[i].render) = Len(E.row[i].chars) <=> NoTab(E.row[i])

\* C13: for every row, the render is at least as long as the chars; it is as
\* long as the chars when the row has no tab, and with tabs if and only if
\* every tab of the row is on the last column before a tab stop.
RenderLongerIffWideTab ==
  \A i \in 1..Len(E.row) :
     /\ Len(E.row[i].render) >= Len(E.row[i].chars)
     /\ NoTab(E.row[i]) => Len(E.row[i].render) = Len(E.row[i].chars)
     /\ Len(E.row[i].render) = Len(E.row[i].chars) <=> TabsFillOneColumn(E.row[i])

\* a row with a tab on column 7, and a render as long as its chars
TabOnLastColumnOfStop ==
  /\ pc = "row_cx"
  /\ Len(E.row[1].chars) = ED9T_TAB_STOP
  /\ E.row[1].chars[ED9T_TAB_STOP] = TAB
  /\ NoTab([chars |-> SubSeq(E.row[1].chars, 1, ED9T_TAB_STOP - 1)])
  /\ Len(E.row[1].render) = ED9T_TAB_STOP

(***************************************************************************)
(* editor_insert_row, editor_del_row and editor_row_del_char               *)
(***************************************************************************)
\* new is old with the row of bytes s put at the 0-based position at
RowPutAt(old, new, at, s) ==
  /\ Len(new) = Len(old) + 1
  /\ \A i \in 1..at : new[i] = old[i]
  /\ new[at + 1] = s
  /\ \A i \in (at + 1)..Len(old) : new[i + 1] = old[i]

\* new is old without its element at the 0-based position at
TakenOut(old, new, at) ==
  /\ Len(new) = Len(old) - 1
  /\ \A i \in 1..at : new[i] = old[i]
  /\ \A i \in (at + 2)..Len(old) : new[i - 1] = old[i]

\* C14 as stated: editor_insert_row(at, s) always inserts the row: an at
\* outside 0..numrows is brought into 0..numrows, the later rows go down by
\* one, numrows grows by one and dirty by one.
InsertRowClamps ==
  Did("editor_insert_row") =>
    LET e == trail[1].e
        at == IF trail[1].at < 0 THEN 0
              ELSE IF trail[1].at > e.numrows THEN e.numrows ELSE trail[1].at
    IN  /\ RowPutAt(CharsOf(e.row), CharsOf(E.row), at, trail[1].s)
        /\ E.numrows = e.numrows + 1
        /\ E.dirty = e.dirty + 1

\* C14: editor_insert_row(at, s) with at in 0..numrows inserts the row at at,
\* the later rows go down by one, numrows grows by one and dirty by one; with
\* at outside 0..numrows it changes nothing.
InsertRowInRangeOnly ==
  Did("editor_insert_row") =>
    LET e == trail[1].e
        at == trail[1].at
    IN  IF 0 <= at /\ at <= e.numrows
        THEN /\ RowPutAt(CharsOf(e.row), CharsOf(E.row), at, trail[1].s)
             /\ E.numrows = e.numrows + 1
             /\ E.dirty = e.dirty + 1
        ELSE E = e

\* editor_insert_row has been called with at = numrows + 1 on a buffer of rows
InsertRowPastEnd ==
  /\ Did("editor_insert_row")
  /\ trail[1].e.numrows > 0
  /\ trail[1].at = trail[1].e.numrows + 1
  /\ E.numrows = trail[1].e.numrows

\* C15: editor_del_row(at) with at outside 0..numrows-1 and
\* editor_row_del_char(row, at) with at outside 0..size-1 change nothing:
\* rows, numrows and dirty are as they were; in range, the row (the byte) at
\* at is removed and no other, the later ones go down by one and dirty grows
\* by one.
DelRowAndDelCharInRangeOnly ==
  /\ Did("editor_del_row") =>
       LET e == trail[1].e
           at == trail[1].at
       IN  IF 0 <= at /\ at < e.numrows
           THEN /\ TakenOut(e.row, E.row, at)
                /\ E.numrows = e.numrows - 1
                /\ E.dirty = e.dirty + 1
           ELSE E = e
  /\ Did("editor_row_del_char") =>
       LET e == trail[1].e
           at == trail[1].at
           r == trail[1].r
       IN  IF 0 <= at /\ at < Len(e.row[r + 1].chars)
           THEN /\ TakenOut(e.row[r + 1].chars, E.row[r + 1].chars, at)
                /\ \A i \in 1..Len(e.row) : i # r + 1 => E.row[i] = e.row[i]
                /\ Len(E.row) = Len(e.row)
                /\ E.numrows = e.numrows
                /\ E.dirty = e.dirty + 1
           ELSE E = e

\* the first byte of a row of two bytes has been removed, the row having a
\* row after it
FirstByteOfRowRemoved ==
  /\ Did("editor_row_del_char")
  /\ trail[1].at = 0
  /\ trail[1].r + 1 < trail[1].e.numrows
  /\ Len(trail[1].e.row[trail[1].r + 1].chars) = 2
  /\ Len(E.row[trail[1].r + 1].chars) = 1

(***************************************************************************)
(* The keys editor_read_key returns                                        *)
(***************************************************************************)
\* the bytes the reads of this call gave, in order
BytesRead ==
  LET got == SelectSeq(rd.reads, LAMBDA r : r.nread = 1)
  IN  [i \in 1..Len(got) |-> got[i].c]

\* the reads of this call, from the one that gave the first byte on
ReadsOfKey ==
  Cardinality({i \in 1..Len(rd.reads) : \E j \in 1..i : rd.reads[j].nread = 1})

\* the sequences with a key, each with its key: ESC [ A/B/C/D/H/F, ESC O H/F
\* and ESC [ d ~
KeyTable ==
  {<<<<ESC, 91, 65>>, ARROW_UP>>, <<<<ESC, 91, 66>>, ARROW_DOWN>>,
   <<<<ESC, 91, 67>>, ARROW_RIGHT>>, <<<<ESC, 91, 68>>, ARROW_LEFT>>,
   <<<<ESC, 91, 72>>, HOME_KEY>>, <<<<ESC, 79, 72>>, HOME_KEY>>,
   <<<<ESC, 91, 70>>, END_KEY>>, <<<<ESC, 79, 70>>, END_KEY>>,
   <<<<ESC, 91, 49, 126>>, HOME_KEY>>, <<<<ESC, 91, 55, 126>>, HOME_KEY>>,
   <<<<ESC, 91, 51, 126>>, DEL_KEY>>,
   <<<<ESC, 91, 52, 126>>, END_KEY>>, <<<<ESC, 91, 56, 126>>, END_KEY>>,
   <<<<ESC, 91, 53, 126>>, PAGE_UP>>, <<<<ESC, 91, 54, 126>>, PAGE_DOWN>>}

\* the bytes read are a sequence with a key
Recognised == \E p \in KeyTable : BytesRead = p[1]

\* C16: the complete sequences are mapped as listed and in no other way, any
\* byte other than ESC is returned as it is, and byte 127 is Backspace.
DecodesAsListed ==
  pc = "key_read" =>
    /\ \A p \in KeyTable : BytesRead = p[1] => rd.ret = p[2]
    /\ (Len(BytesRead) = 1 /\ BytesRead[1] # ESC) => rd.ret = BytesRead[1]
    /\ BytesRead = <<127>> => rd.ret = BACKSPACE
    /\ rd.ret >= ARROW_LEFT => Recognised

\* ESC [ 6 ~ has been read as Page Down
PageDownRead ==
  /\ pc = "key_read"
  /\ BytesRead = <<ESC, 91, 54, 126>>
  /\ rd.ret = PAGE_DOWN

\* editor_read_key has read ESC and has not returned
InEscape == pc \in {"read_seq0", "read_seq1", "read_seq2"}

\* C17: once ESC is read, a key is returned after a bounded number of reads:
\* when a byte that is needed does not come in the time of a read, or the
\* bytes read are no sequence with a key, the key is ESC, once; the reader
\* never waits without end.
EscResolves ==
  /\ [](InEscape => ReadsOfKey <= 3)
  /\ []((pc = "key_read" /\ BytesRead # <<>> /\ BytesRead[1] = ESC) =>
          /\ ReadsOfKey <= 4
          /\ ~Recognised => rd.ret = ESC)
  /\ InEscape ~> (pc = "key_read")

\* the byte after ESC [ 5 has not come, and the key is ESC
EscTimedOut ==
  /\ pc = "key_read"
  /\ BytesRead = <<ESC, 91, 53>>
  /\ rd.reads[Len(rd.reads)].nread = 0
  /\ rd.ret = ESC

\* C18 as stated: one key takes at most 3 reads in all, whatever the bytes.
AtMostThreeReads ==
  pc = "key_read" => ReadsOfKey <= 3

\* C18: one key takes at most 4 reads from the one that gives its first
\* byte, that read and at most 3 after an ESC; it takes 4 for ESC [ and a
\* digit, and for no other bytes.
AtMostFourReads ==
  pc = "key_read" =>
    /\ ReadsOfKey <= 4
    /\ ReadsOfKey = 4 =>
         /\ SubSeq(BytesRead, 1, 2) = <<ESC, 91>>
         /\ BytesRead[3] \in 48..57

\* ESC [ 3 ~ has been read as Delete, in four reads
DeleteReadInFour ==
  /\ pc = "key_read"
  /\ ReadsOfKey = 4
  /\ rd.ret = DEL_KEY

(***************************************************************************)
(* Scrolling                                                               *)
(***************************************************************************)
\* the render column of the cursor: the column at which the byte at cx
\* starts, 0 on the row past the last
RenderColumn(e) ==
  IF e.cy < e.numrows THEN ColumnOf(e.row[e.cy + 1].chars, e.cx + 1) ELSE 0

\* C19: right after editor_scroll in every frame, with screenrows >= 1 and
\* screencols >= 1, rowoff <= cy < rowoff + screenrows and coloff <= rx <
\* coloff + screencols, rx being the render column of cx on row cy, 0 on the
\* row past the last; so the cursor of the frame is inside the text area.
CursorInWindow ==
  (pc \in {"key", "prompt_key"} /\ E.screenrows >= 1 /\ E.screencols >= 1) =>
    /\ E.rx = RenderColumn(E)
    /\ E.rowoff <= E.cy /\ E.cy < E.rowoff + E.screenrows
    /\ E.coloff <= E.rx /\ E.rx < E.coloff + E.screencols

\* a frame has been scrolled down and to the right, the cursor after a tab
ScrolledDownAndRight ==
  /\ pc = "key"
  /\ E.rowoff > 0
  /\ E.coloff > 0
  /\ E.rx >= ED9T_TAB_STOP

\* off is the offset after a scroll from off0 of a window of size places, for
\* the position at: as it was when at is in the window, and else moved so
\* that at is the first or the last place of the window
MovedTheLeast(off0, off, size, at) ==
  IF off0 <= at /\ at < off0 + size THEN off = off0
  ELSE IF at < off0 THEN off = at
  ELSE off = at - size + 1

\* C20: editor_scroll leaves rowoff as it is when cy is in the window and
\* coloff as it is when rx is in the window; otherwise it moves that offset by
\* the least that brings the cursor to the first or last row or column of the
\* window; the new rowoff depends on cy, rowoff and screenrows only, the new
\* coloff on rx, coloff and screencols only.  (A window has a row and a
\* column at least.)
ScrollMovesTheLeast ==
  Did("editor_scroll") =>
    LET e == trail[1].e
    IN  /\ MovedTheLeast(e.rowoff, E.rowoff, e.screenrows, e.cy)
        /\ MovedTheLeast(e.coloff, E.coloff, e.screencols, RenderColumn(e))
        /\ E = [e EXCEPT !.rx = E.rx, !.rowoff = E.rowoff, !.coloff = E.coloff]

\* a scroll that took the window up, and to the right up to a column after a
\* tab
ScrolledUpAndRight ==
  /\ Did("editor_scroll")
  /\ E.rowoff < trail[1].e.rowoff
  /\ E.coloff > trail[1].e.coloff
  /\ trail[1].e.coloff > 0
  /\ E.rx > ED9T_TAB_STOP

(***************************************************************************)
(* Searching                                                               *)
(***************************************************************************)
\* the search prompt reads the key c, which leaves its line as it is
SearchKey(c) == pc = "prompt_key" /\ cb = "find" /\ PromptLoop(c, buf)

\* the search prompt reads the byte c, which goes onto the end of its line
SearchChar(c) == pc = "prompt_key" /\ cb = "find" /\ PromptLoop(c, Append(buf, c))

Contains(row, query) == StrStr(row.render, query) # -1

\* the cursor is on the first query of the row at
OnMatch(e, at, query) ==
  /\ e.cy = at
  /\ e.cx = editor_row_rx_to_cx(e.row[at + 1], StrStr(e.row[at + 1].render, query))

\* C21: the search wraps round the rows.  With the last match on the last
\* row, Right or Down finds the match of row 0 when row 0 contains the line
\* typed; with the last match on row 0, Left or Up finds the match of the
\* last row when that row contains it.
SearchWraps ==
  [][/\ \A c \in {ARROW_RIGHT, ARROW_DOWN} :
          (/\ SearchKey(c)
           /\ E.numrows > 0
           /\ last_match = E.numrows - 1
           /\ Contains(E.row[1], buf))
          => (/\ pc' = "prompt_refresh"
              /\ last_match' = 0
              /\ OnMatch(E', 0, buf))
     /\ \A c \in {ARROW_LEFT, ARROW_UP} :
          (/\ SearchKey(c)
           /\ E.numrows > 0
           /\ last_match = 0
           /\ Contains(E.row[E.numrows], buf))
          => (/\ pc' = "prompt_refresh"
              /\ last_match' = E.numrows - 1
              /\ OnMatch(E', E.numrows - 1, buf))]_vars

\* C22: Escape in the search prompt puts cx, cy, rowoff and coloff back to
\* what they were when Ctrl-F was pressed, whatever rows the search went to,
\* and Enter leaves the cursor on the row and column of the last match; the
\* editor goes on from there.
SearchEndRestoresOrStays ==
  [][/\ PromptEscFind
          => (/\ pc' = "refresh"
              /\ E'.cx = saved.cx
              /\ E'.cy = saved.cy
              /\ E'.rowoff = saved.rowoff
              /\ E'.coloff = saved.coloff)
     /\ PromptEnterFind
          => (/\ pc' = "refresh"
              /\ E'.cx = E.cx
              /\ E'.cy = E.cy)]_vars

\* the row of the first query met on going round the rows from the row
\* after (dir = 1) or before (dir = -1) the row from, -1 when no row has it
MatchFrom(e, query, from, dir) ==
  LET n == e.numrows
      at(d) == (from + dir * d + n) % n
      ds == {d \in 1..n : Contains(e.row[at(d) + 1], query)}
  IN  IF ds = {} THEN -1 ELSE at(CHOOSE d \in ds : \A x \in ds : d <= x)

\* the search went on to the row found, or stayed where nothing was found
SearchWentTo(found, query) ==
  /\ pc' = "prompt_refresh"
  /\ IF found = -1 THEN E'.cy = E.cy /\ E'.cx = E.cx
     ELSE last_match' = found /\ OnMatch(E', found, query)

\* C23: in a search, an arrow key keeps the anchor: after a match, Right or
\* Down goes on to the next row that contains the line typed and Left or Up
\* to the one before, round the rows.  A byte typed and a backspace drop the
\* anchor: the lookup is from row 0 forwards.
ArrowsKeepAnchor ==
  [][/\ \A c \in {ARROW_RIGHT, ARROW_DOWN} :
          (SearchKey(c) /\ last_match # -1)
          => SearchWentTo(MatchFrom(E, buf, last_match, 1), buf)
     /\ \A c \in {ARROW_LEFT, ARROW_UP} :
          (SearchKey(c) /\ last_match # -1)
          => SearchWentTo(MatchFrom(E, buf, last_match, -1), buf)
     /\ \A c \in PromptChars :
          (SearchChar(c) /\ Len(buf) < MaxBuf)
          => SearchWentTo(MatchFrom(E, buf', -1, 1), buf')
     /\ \A c \in {BACKSPACE, CTRL_H, DEL_KEY} :
          (/\ pc = "prompt_key"
           /\ cb = "find"
           /\ PromptLoop(c, IF Len(buf) # 0 THEN SubSeq(buf, 1, Len(buf) - 1) ELSE buf))
          => SearchWentTo(MatchFrom(E, buf', -1, 1), buf')]_vars

\* a key of the search prompt that leaves the prompt open
SearchStep == cb = "find" /\ (PromptBackspace \/ PromptChar \/ PromptOther)

NoRowContains(e, query) == \A i \in 1..e.numrows : ~Contains(e.row[i], query)

\* C24: a search key whose line is in no row is reported by the status
\* message (a message other than the prompt's own line is set) and leaves
\* cx, cy, rowoff, coloff, the rows and dirty as they were.
NoMatchReportedAndHarmless ==
  [][(SearchStep /\ NoRowContains(E, buf'))
     => (/\ pc' = "prompt_refresh"
         /\ E'.statusmsg.kind # PromptMsg(buf').kind
         /\ E'.cx = E.cx
         /\ E'.cy = E.cy
         /\ E'.rowoff = E.rowoff
         /\ E'.coloff = E.coloff
         /\ E'.row = E.row
         /\ E'.dirty = E.dirty)]_vars

(***************************************************************************)
(* The prompt                                                              *)
(***************************************************************************)
\* C25: the prompt returns a line only on Enter with a line that is not
\* empty, and then that line; Enter on an empty line leaves the prompt open;
\* Escape ends the prompt with no line, after the callback was called with
\* Escape; and a callback is called once, with the key, for every key the
\* prompt reads (the save prompt has no callback).
PromptReturnsAndCalls ==
  Did("editor_prompt") =>
    LET t == trail[1]
    IN  /\ t.ret \notin {StillOpen, NULL} => t.key = CR /\ Len(t.line) # 0
        /\ t.key = CR =>
             t.ret = (IF Len(t.line) # 0 THEN Str(t.line) ELSE StillOpen)
        /\ t.key = ESC => t.ret = NULL
        /\ t.key \notin {CR, ESC} => t.ret = StillOpen
        /\ t.calls = (IF t.callback = "find" THEN <<t.key>> ELSE <<>>)
        /\ (t.ret = StillOpen /\ pc = "prompt_refresh") => cb = t.callback
        /\ (t.ret # StillOpen /\ pc = "refresh") => cb = "none"

EnterOnEmptyLine ==
  /\ Did("editor_prompt")
  /\ trail[1].key = CR
  /\ trail[1].line = <<>>
  /\ trail[1].callback = "find"
  /\ trail[1].calls = <<CR>>
  /\ pc = "prompt_refresh"
  /\ cb = "find"

\* C26: Ctrl-S on a buffer with no file name opens the prompt for one and
\* calls nothing of the file system; Escape in that prompt opens and writes
\* no file, sets the message "Save aborted", and leaves the file name unset
\* and the rows and dirty as they were.
SaveAbortLeavesAll ==
  [][/\ (pc = "key" /\ E.filename.null)
          => (disk' = disk /\ io_last' = <<"none", 0>>)
     /\ KeyCtrlSPrompt => (cb' = "save" /\ pc' = "prompt_refresh")
     /\ (pc = "prompt_key" /\ cb = "save" /\ trail' # <<>> /\ trail'[1].key = ESC)
          => (/\ disk' = disk
              /\ io_last' = <<"none", 0>>
              /\ opened' = opened
              /\ E'.statusmsg = SaveAbortedMsg
              /\ E'.filename = NULL
              /\ E'.row = E.row
              /\ E'.numrows = E.numrows
              /\ E'.dirty = E.dirty
              /\ pc' = "refresh")]_vars

SaveAbortedOfDirty ==
  /\ Did("editor_prompt")
  /\ trail[1].key = ESC
  /\ trail[1].callback = "save"
  /\ trail[1].line = <<97>>
  /\ pc = "refresh"
  /\ E.dirty = 1
  /\ E.numrows = 1
  /\ E.filename = NULL
  /\ E.statusmsg = SaveAbortedMsg
  /\ disk = NoFile

(***************************************************************************)
(* Keys                                                                    *)
(***************************************************************************)
\* the rows (their chars) after the byte at (cy, cx) is deleted: the byte
\* taken out of its row, at the end of a row the next row joined on, and at
\* the end of the last row and past it nothing
DeletedForward(rows, cy, cx) ==
  IF cy < Len(rows) /\ cx < Len(rows[cy + 1])
  THEN [rows EXCEPT ![cy + 1] = SubSeq(@, 1, cx) \o SubSeq(@, cx + 2, Len(@))]
  ELSE IF cy + 1 < Len(rows)
  THEN SubSeq(rows, 1, cy) \o <<rows[cy + 1] \o rows[cy + 2]>>
         \o SubSeq(rows, cy + 3, Len(rows))
  ELSE rows

\* C27: the Delete key deletes forward wherever the cursor is: the byte at
\* the cursor goes, or at the end of a row the next row is joined on, and the
\* cursor stays at (cx, cy); with nothing to delete (the end of the last row,
\* the row past the end) rows and cursor are as before.
DeleteKeyDeletesForward ==
  [][(pc = "key" /\ KeyDone(DeleteKey(E, DEL_KEY)))
     => (/\ CharsOf(E'.row) = DeletedForward(CharsOf(E.row), E.cy, E.cx)
         /\ E'.numrows = Len(E'.row)
         /\ E'.cx = E.cx
         /\ E'.cy = E.cy)]_vars

\* C28: only printing bytes with no case of their own are inserted: a
\* control byte with no case (Ctrl-A, the byte 1) leaves the rows, the cursor
\* and dirty as they were.
ControlByteNotInserted ==
  [][KeyControl
     => (/\ E'.row = E.row
         /\ E'.numrows = E.numrows
         /\ E'.cx = E.cx
         /\ E'.cy = E.cy
         /\ E'.dirty = E.dirty)]_vars

Least(S) == CHOOSE x \in S : \A y \in S : x <= y

\* the row Page Up or Page Down ends on
PageDest(e, c) ==
  IF c = PAGE_UP
  THEN (IF e.rowoff - e.screenrows < 0 THEN 0 ELSE e.rowoff - e.screenrows)
  ELSE Least({e.numrows, e.rowoff + 2 * e.screenrows - 1})

\* the length of row y, 0 for the row past the end
RowLen(e, y) == IF y < e.numrows THEN Len(e.row[y + 1].chars) ELSE 0

\* the rows the cursor is moved onto, one at a time, from the edge of the
\* window
PagePassed(e, c) ==
  IF c = PAGE_UP
  THEN {(IF e.rowoff - k < 0 THEN 0 ELSE e.rowoff - k) : k \in 1..e.screenrows}
  ELSE LET s == Least({e.numrows, e.rowoff + e.screenrows - 1})
       IN  {Least({e.numrows, s + k}) : k \in 1..e.screenrows}

PageStep(c) == pc = "key" /\ KeyDone(PageKey(E, c))

\* C29 as stated: Page Up ends on row max(0, rowoff - screenrows), Page Down
\* on row min(numrows, rowoff + 2 * screenrows - 1), and cx is clamped to
\* the length of that row.
PageEndsClampedToDest ==
  [][\A c \in {PAGE_UP, PAGE_DOWN} :
       PageStep(c)
       => (/\ E'.cy = PageDest(E, c)
           /\ E'.cx = Least({E.cx, RowLen(E, PageDest(E, c))}))]_vars

\* C29, amended: the rows are as stated, and cx is clamped to the length of
\* every row the cursor is moved onto on the way, the row it ends on being
\* the last of them.
PageEndsClampedOnTheWay ==
  [][\A c \in {PAGE_UP, PAGE_DOWN} :
       PageStep(c)
       => (/\ E'.cy = PageDest(E, c)
           /\ PageDest(E, c) \in PagePassed(E, c)
           /\ E'.cx = Least({E.cx} \cup {RowLen(E, y) : y \in PagePassed(E, c)}))]_vars

\* Page Up over an empty row, from the end of a row to a row as long
PagedUpOverShortRow ==
  /\ Did("editor_process_keypress")
  /\ pc = "refresh"
  /\ trail[1].e.screenrows = 2
  /\ trail[1].e.rowoff = 2
  /\ trail[1].e.cy = 2
  /\ trail[1].e.cx = 2
  /\ RowLen(E, 1) = 0
  /\ RowLen(E, 0) = 2
  /\ E.cy = 0
  /\ E.cx = 0

(***************************************************************************)
(* The terminal                                                            *)
(***************************************************************************)
\* the process has ended: by exit(), or killed by abort()
Ended == pc \in {"exit", "abort"}

\* C30: once the raw attributes were set, the terminal has its original
\* attributes back whenever the process has ended, on Ctrl-Q with status 0
\* and on a fatal error with status 1 alike.
RawModeRestoredAtEnd ==
  (Ended /\ tty.acquired) => (tty.mode = "orig" /\ exit_code \in {0, 1})

(***************************************************************************)
(* C31  Ctrl-Q on a clean buffer: when editor_process_keypress reads a      *)
(* Ctrl-Q (nq counts them) with E.dirty = 0, the program exits with code 0  *)
(* in that step, whatever quit_times is, and the editor state, the status   *)
(* message with it, is left as it was.                                      *)
(***************************************************************************)
CleanCtrlQExits ==
  [][(nq' = nq + 1 /\ E.dirty = 0)
       => (pc' = "exit" /\ exit_code' = 0 /\ E' = E)]_vars

\* a file was opened and the first key was Ctrl-Q
CleanCtrlQExited ==
  /\ pc = "exit" /\ exit_code = 0
  /\ nq = 1 /\ E.dirty = 0 /\ E.numrows > 0
  /\ E.statusmsg = HelpMsg

(***************************************************************************)
(* C32  editor_open on a readable file: the lines of a file end at its     *)
(* '\n' bytes and at its last byte; after the open there is one row for    *)
(* each line, in the file's order, holding the line without the '\n' and   *)
(* '\r' bytes at its end, dirty is 0 and the file name is the one given.   *)
(***************************************************************************)
\* the offsets (from 1) of the last byte of each line of f
LineEnds(f) ==
  {i \in 1..Len(f) : f[i] = LF}
    \cup (IF Len(f) > 0 /\ f[Len(f)] # LF THEN {Len(f)} ELSE {})

\* the end of line k (from 1) of f, and 0 for k = 0
LineEnd(f, k) ==
  IF k = 0 THEN 0
  ELSE CHOOSE i \in LineEnds(f) : Cardinality({j \in LineEnds(f) : j < i}) = k - 1

LineOf(f, k) == SubSeq(f, LineEnd(f, k - 1) + 1, LineEnd(f, k))

\* line without the '\n' and '\r' bytes at its end
WithoutLineEnd(line) ==
  LET keep == {n \in 0..Len(line) :
                 /\ n > 0 => line[n] \notin {LF, CR}
                 /\ \A m \in (n + 1)..Len(line) : line[m] \in {LF, CR}}
  IN  SubSeq(line, 1, CHOOSE n \in keep : TRUE)

OpenLoadsLines ==
  [][(pc = "start" /\ pc' = "refresh")
       => LET f == disk.bytes
              n == Cardinality(LineEnds(f))
          IN  /\ E'.numrows = n
              /\ Len(E'.row) = n
              /\ \A k \in 1..n : E'.row[k].chars = WithoutLineEnd(LineOf(f, k))
              /\ E'.dirty = 0
              /\ E'.filename = Str(ArgName)]_vars

\* a file of an empty line and a line ending in '\r' has been opened
OpenedTwoLines ==
  /\ pc = "refresh"
  /\ opened = <<LF, 97, CR>>
  /\ E.numrows = 2
  /\ E.row[1].chars = <<>> /\ E.row[2].chars = <<97>>
  /\ E.dirty = 0 /\ E.filename = Str(ArgName)

(***************************************************************************)
(* C33  A redraw before every key read: whenever the program is about to   *)
(* read a key, in the loop of main or in editor_prompt, the terminal has   *)
(* been written once since the last key, and what was written is the       *)
(* frame of the present E: the rows and the status bar of the buffer as    *)
(* it is, drawn with the offsets editor_scroll left, the cursor placed     *)
(* inside the window.                                                      *)
(***************************************************************************)
AtKeyRead == pc \in {"key", "prompt_key"}

FrameBeforeKeyRead ==
  AtKeyRead =>
    /\ Len(screen) = 1
    /\ screen[1].rows = editor_draw_rows(E)
    /\ screen[1].status = editor_draw_status_bar(E)
    /\ screen[1].cursor = <<(E.cy - E.rowoff) + 1, (E.rx - E.coloff) + 1>>
    /\ screen[1].cursor[1] \in 1..E.screenrows
    /\ screen[1].cursor[2] \in 1..E.screencols

\* the search prompt waits for a key, the window scrolled to a row found
FrameOfScrolledSearch ==
  /\ pc = "prompt_key" /\ cb = "find"
  /\ E.rowoff > 0 /\ E.cy = E.rowoff
  /\ Len(screen) = 1
  /\ screen[1].rows[1].kind = "row"
  /\ screen[1].message.kind = PromptMsg(<<>>).kind

(***************************************************************************)
(* C34  The message bar: a message is stamped with the time it is set at;  *)
(* a frame written by a redraw holds a message only when it is the         *)
(* message of E, not empty, and fewer than 5 seconds have passed since     *)
(* its stamp; a frame written 5 seconds or more after the stamp holds no   *)
(* message.                                                                *)
(***************************************************************************)
MessageShownWhileFresh ==
  [][/\ (E'.statusmsg # E.statusmsg \/ E'.statusmsg_time # E.statusmsg_time)
          => E'.statusmsg_time = now
     /\ Len(screen') = Len(screen) + 1
          => LET shown == screen'[Len(screen')].message
                 age == now - E.statusmsg_time
             IN  /\ shown # NoMsg
                      => (E.statusmsg # NoMsg /\ shown = E.statusmsg /\ age < 5)
                 /\ age >= 5 => shown = NoMsg
                 /\ (age < 5 /\ E.statusmsg # NoMsg) => shown = E.statusmsg]_vars

\* the help message is five seconds old and the frame before the key has
\* an empty message bar
MessageExpired ==
  /\ pc = "key"
  /\ E.statusmsg = HelpMsg
  /\ now - E.statusmsg_time >= 5
  /\ Len(screen) = 1
  /\ screen[1].message = NoMsg

(***************************************************************************)
(* C35  The line of the search prompt is freed once: while editor_prompt   *)
(* is in its loop, about to format, read or change buf, buf has not been   *)
(* passed to free(), and the process is never ended by free() of a block   *)
(* already freed.                                                          *)
(***************************************************************************)
SearchLineLiveInPrompt ==
  /\ pc \in {"prompt_refresh", "prompt_key"} => ~buf_freed
  /\ pc # "abort"

(***************************************************************************)
(* C36  The decoder and the machine of four states.  The machine is run    *)
(* over what the reads of one call of editor_read_key gave: it takes one   *)
(* read in each state, and gives its key and the number of bytes it has    *)
(* taken when it emits.  The key editor_read_key returns is the key of     *)
(* the machine, and editor_read_key has taken as many bytes as the         *)
(* machine: after ESC and a byte that is not '[' or 'O' it has taken no    *)
(* byte more.                                                              *)
(***************************************************************************)
RECURSIVE Machine(_, _, _, _)
Machine(state, digit, reads, used) ==
  IF reads = <<>> THEN [key |-> -1, used |-> used]
  ELSE
    LET r == Head(reads)
        c == r.c
        rest == Tail(reads)
        Emit(k) == [key |-> k, used |-> used + 1]
    IN  IF r.nread # 1
        THEN IF state = "NORMAL" THEN Machine("NORMAL", digit, rest, used)
             ELSE [key |-> ESC, used |-> used]
        ELSE
          CASE state = "NORMAL" ->
                 IF c = ESC THEN Machine("ESC_SEEN", digit, rest, used + 1)
                 ELSE Emit(c)
            [] state = "ESC_SEEN" ->
                 IF c = 91 THEN Machine("ESC_BRACKET", digit, rest, used + 1)
                 ELSE IF c = 79 THEN Machine("ESC_SEEN_O", digit, rest, used + 1)
                 ELSE Emit(ESC)
            [] state = "ESC_SEEN_O" ->
                 IF c = 72 THEN Emit(HOME_KEY)
                 ELSE IF c = 70 THEN Emit(END_KEY)
                 ELSE Emit(ESC)
            [] state = "ESC_BRACKET" ->
                 IF c \in 48..57 THEN Machine("ESC_BRACKET_DIGIT", c, rest, used + 1)
                 ELSE CASE c = 65 -> Emit(ARROW_UP)
                        [] c = 66 -> Emit(ARROW_DOWN)
                        [] c = 67 -> Emit(ARROW_RIGHT)
                        [] c = 68 -> Emit(ARROW_LEFT)
                        [] c = 72 -> Emit(HOME_KEY)
                        [] c = 70 -> Emit(END_KEY)
                        [] OTHER -> Emit(ESC)
            [] state = "ESC_BRACKET_DIGIT" ->
                 IF c # 126 THEN Emit(ESC)
                 ELSE CASE digit \in {49, 55} -> Emit(HOME_KEY)
                        [] digit = 51 -> Emit(DEL_KEY)
                        [] digit \in {52, 56} -> Emit(END_KEY)
                        [] digit = 53 -> Emit(PAGE_UP)
                        [] digit = 54 -> Emit(PAGE_DOWN)
                        [] OTHER -> Emit(ESC)

DecoderIsMachine ==
  pc = "key_read" =>
    Machine("NORMAL", 0, rd.reads, 0) = [key |-> rd.ret, used |-> Len(BytesRead)]

(***************************************************************************)
(* C37  The prompt leaves the text alone: a step taken while editor_prompt *)
(* is open, for the save-as prompt or the search prompt and whatever the   *)
(* key, the keys that move the search included, leaves every row, the      *)
(* number of rows and dirty as they were.  (Enter on a file name closes    *)
(* the save-as prompt; editor_save then goes on to write the file, and     *)
(* sets dirty to 0 when it has written it.)                                *)
(***************************************************************************)
PromptOpen == pc \in {"prompt_refresh", "prompt_key"}

PromptKeepsText ==
  [][PromptOpen =>
       /\ E'.row = E.row
       /\ E'.numrows = E.numrows
       /\ E'.dirty # E.dirty
            => (cb = "save" /\ ~PromptOpen' /\ io_last'[1] = "write" /\ E'.dirty = 0)]_vars

\* a search key has moved to a match in a buffer not saved
SearchMovedInDirty ==
  /\ pc = "prompt_refresh" /\ cb = "find"
  /\ Did("editor_prompt") /\ trail[1].key = ARROW_DOWN
  /\ last_match = 0
  /\ E.dirty = 1 /\ E.numrows = 1 /\ E.cx > 0

(***************************************************************************)
(* C38  The statics of the search are reset at its end: whenever no        *)
(* search prompt is open, at the start and after every search ended by     *)
(* Enter or by Escape, last_match is -1 and direction is 1, so that the    *)
(* first lookup of the next search goes forward from row 0.                *)
(***************************************************************************)
SearchStateReset ==
  cb # "find" => (last_match = -1 /\ direction = 1)

\* a search that had found its line at a column past 0 was ended by Enter
SearchEndedOnMatch ==
  /\ pc = "refresh"
  /\ Did("editor_prompt")
  /\ trail[1].callback = "find" /\ trail[1].key = CR
  /\ E.cx > 0
  /\ last_match = -1 /\ direction = 1

(***************************************************************************)
(* C39  editor_open of the earlier snapshots: once ed9t.c or part_000 has  *)
(* opened a file, there is one row for each line of the file, and row 0    *)
(* is the first line of the file without the '\n' and '\r' at its end.     *)
(***************************************************************************)
SnapshotOpenLoadsLines ==
  pc \in {"refresh_ed9t", "refresh_part_000"} =>
    LET n == Cardinality(LineEnds(disk.bytes))
    IN  /\ E.numrows = n
        /\ Len(E.row) = n
        /\ \A k \in 1..n : E.row[k].chars = WithoutLineEnd(LineOf(disk.bytes, k))
====
